---------------------------- MODULE Spec2Model ----------------------------
(***************************************************************************)
(* Model of the retrieval and chunking engine of                           *)
(* voltagent/services/chroma.ts: the Chroma store adapter, hybridRetrieve  *)
(* (vector search + keyword scan + reciprocal rank fusion + re-ranking),   *)
(* iterativeRetrieve, ChromaRetriever.retrieve with its provenance write,  *)
(* and the two chunkers semanticChunk / transformerSemanticChunk.          *)
(*                                                                         *)
(* Texts are sequences of one-character strings.  JavaScript numbers that  *)
(* the code computes by division are kept exact: a reciprocal-rank score   *)
(* is a fraction <<n, d>>, a cosine score is its sign together with its    *)
(* square as a fraction (or NaN).                                          *)
(***************************************************************************)
EXTENDS Integers, Sequences, FiniteSets, TLC

VARIABLES
    store,        \* the Chroma collection: id -> stored document or NoDoc
    hyb,          \* record of the last hybridRetrieve call
    iter,         \* state of the running iterativeRetrieve call
    userContext,  \* the caller's userContext map (its "references" key)
    ret,          \* record of the last ChromaRetriever.retrieve call
    chk,          \* record of the last chunker call
    rr,           \* the re-ranking step of a hybridRetrieve call, promise by promise
    wr            \* record of the last call on a write path, and who put what

vars == <<store, hyb, iter, userContext, ret, chk, rr, wr>>

---------------------------------------------------------------------------
(* Bounds of the model *)

MaxSteps == 2
MaxTextLen == 6

MaxChunkSize == 3
MaxRefs == 3
MaxBatch == 1
MaxResults == 2

---------------------------------------------------------------------------
(* Generic helpers on sequences and numbers *)

Range(s) == {s[i] : i \in 1..Len(s)}

Min(a, b) == IF a <= b THEN a ELSE b

Abs(x) == IF x < 0 THEN -x ELSE x

Sign(x) == IF x < 0 THEN -1 ELSE IF x > 0 THEN 1 ELSE 0

RECURSIVE Gcd(_, _)
Gcd(a, b) == IF b = 0 THEN a ELSE Gcd(b, a % b)

\* Exact fractions <<n, d>> with d > 0, in lowest terms.
Frac(n, d) == LET g == Gcd(Abs(n), d) IN <<n \div g, d \div g>>

FracAdd(x, y) == Frac(x[1] * y[2] + y[1] * x[2], x[2] * y[2])

FracLess(x, y) == x[1] * y[2] < y[1] * x[2]

RECURSIVE SelectSeqBy(_, _)
\* s.filter(...) for a set of kept positions
SelectSeqBy(s, keep) ==
    IF s = <<>> THEN <<>>
    ELSE LET n == Len(s)
             front == SelectSeqBy(SubSeq(s, 1, n - 1), keep)
         IN IF n \in keep THEN Append(front, s[n]) ELSE front

RECURSIVE Concat(_)
\* Concatenation of a sequence of texts
Concat(ss) == IF ss = <<>> THEN <<>> ELSE Head(ss) \o Concat(Tail(ss))

RECURSIVE Join(_, _)
\* Array.prototype.join on a sequence of texts
Join(ss, sep) ==
    IF ss = <<>> THEN <<>>
    ELSE IF Len(ss) = 1 THEN ss[1]
    ELSE ss[1] \o sep \o Join(Tail(ss), sep)

\* All orderings of a finite set, as sequences without repetition
Perms(S) ==
    {p \in [1..Cardinality(S) -> S] : \A i, j \in 1..Cardinality(S) : i # j => p[i] # p[j]}

---------------------------------------------------------------------------
(* Texts *)

\* String.prototype.toLowerCase on the letters the model uses
LowerChar(c) == IF c = "A" THEN "a" ELSE IF c = "B" THEN "b" ELSE c

toLowerCase(t) == [i \in 1..Len(t) |-> LowerChar(t[i])]

\* String.prototype.includes
includes(hay, needle) ==
    \E i \in 0..(Len(hay) - Len(needle)) : SubSeq(hay, i + 1, i + Len(needle)) = needle

\* String.prototype.slice(0, n)
slice0(t, n) == SubSeq(t, 1, Min(n, Len(t)))

Count(t, c) == Cardinality({i \in 1..Len(t) : t[i] = c})

---------------------------------------------------------------------------
(* Documents, metadata and the Chroma collection *)

\* The ids callers use; "7" is an integer-like property key
Ids == {"A", "B", "7"}

\* A metadata value, tagged with its JavaScript type.  An "object" carries the
\* string its toString() returns; a "bare" value is an object without toString.
MV(kind, val) == [kind |-> kind, val |-> val]

EmptyMeta == [k \in {} |-> MV("null", "null")]

ScalarKinds == {"string", "number", "boolean", "null"}

\* sanitizeMetadata: scalars are kept, anything else becomes v?.toString?.() ?? null.
\* result["__proto__"] = v goes to the setter every object literal inherits and
\* gives result no key.
sanitizeMetadata(meta) ==
    [k \in DOMAIN meta \ {"__proto__"} |->
        IF meta[k].kind \in ScalarKinds THEN meta[k]
        ELSE IF meta[k].kind = "object" THEN MV("string", meta[k].val)
        ELSE MV("null", "null")]

\* The documents callers upsert in the model: content and metadata
Bodies ==
    { [content |-> <<"a">>,      metadata |-> EmptyMeta],
      [content |-> <<"A", "b">>, metadata |-> [type |-> MV("string", "t"), title |-> MV("object", "T")]],
      [content |-> <<"a", "b">>, metadata |-> [type |-> MV("undefined", "undefined")]] }

DocsOf(ids, bodies) ==
    {[id |-> i, content |-> b.content, metadata |-> b.metadata] : i \in ids, b \in bodies}

DocInputs == DocsOf(Ids, Bodies)

HasId(st, id) == \E i \in 1..Len(st) : st[i].id = id

\* Faulty variant of UpsertRow: the row is added whether or not the id is stored
UpsertRow_AlwaysAdd(st, row) == Append(st, row)

\* collection.upsert of one document: replace the row of that id, or add a row
UpsertRow(st, row) ==
    IF HasId(st, row.id)
    THEN [i \in 1..Len(st) |-> IF st[i].id = row.id THEN row ELSE st[i]]
    ELSE Append(st, row)

RECURSIVE UpsertRows(_, _)
UpsertRows(st, rows) ==
    IF rows = <<>> THEN st ELSE UpsertRows(UpsertRow(st, Head(rows)), Tail(rows))

\* upsertDocuments: contents, ids and sanitized metadatas of the batch
upsertDocuments(st, docs) ==
    UpsertRows(st, [i \in 1..Len(docs) |->
        [id |-> docs[i].id, content |-> docs[i].content,
         metadata |-> sanitizeMetadata(docs[i].metadata)]])

\* Faulty variant of deleteDocument: the chunks of the document go with it
deleteDocument_Cascade(st, id) ==
    SelectSeqBy(st, {i \in 1..Len(st) :
        /\ st[i].id # id
        /\ ~("parentId" \in DOMAIN st[i].metadata /\ st[i].metadata["parentId"].val = id)})

\* deleteDocument: collection.delete({ids: [id]})
deleteDocument(st, id) == SelectSeqBy(st, {i \in 1..Len(st) : st[i].id # id})

---------------------------------------------------------------------------
(* The two embedding models, as deterministic functions of the text *)

\* The collection's embedding function (embeddingFunction of getCollection)
StoreEmbed(t) == <<Count(t, "A"), Count(t, "B")>>

\* Chroma's distance of a stored text to the query text (squared L2)
Distance(q, t) ==
    LET x == StoreEmbed(q)
        y == StoreEmbed(t)
    IN (x[1] - y[1]) * (x[1] - y[1]) + (x[2] - y[2]) * (x[2] - y[2])

\* The re-ranking pipeline's embedding of a text (features[k].data)
Embed(t) ==
    <<Count(t, "a") - Count(t, "b"), Count(t, "A") - Count(t, "B")>>

\* collection.query: the nResults nearest rows, nearest first; rows at the same
\* distance come in either order
QueryAnswers(st, q, nResults) ==
    LET k == Min(nResults, Len(st))
        sorted == {p \in Perms(1..Len(st)) :
                     \A i, j \in 1..Len(st) :
                        i < j => Distance(q, st[p[i]].content) <= Distance(q, st[p[j]].content)}
    IN {[i \in 1..k |-> [id |-> st[p[i]].id, content |-> st[p[i]].content,
                         metadata |-> st[p[i]].metadata,
                         distance |-> Frac(Distance(q, st[p[i]].content), 1)]] : p \in sorted}

\* Faulty variant of retrieveDocuments: no try/catch, the store's error is thrown on
retrieveDocuments_NoCatch(storeOk, answer) ==
    IF ~storeOk THEN [threw |-> TRUE, docs |-> <<>>]
    ELSE [threw |-> FALSE, docs |-> answer]

\* retrieveDocuments: the query's rows as ChromaDocs; an error of getCollection
\* or of collection.query is caught and [] returned
retrieveDocuments(storeOk, answer) ==
    IF ~storeOk THEN [threw |-> FALSE, docs |-> <<>>]
    ELSE [threw |-> FALSE,
          docs |-> [i \in 1..Len(answer) |->
                      [id |-> answer[i].id, content |-> answer[i].content,
                       metadata |-> answer[i].metadata, distance |-> answer[i].distance]]]

\* listDocuments: collection.get({}), or a thrown Error when the store call throws
listDocuments(storeOk, st) ==
    IF storeOk THEN [threw |-> FALSE, docs |-> st] ELSE [threw |-> TRUE, docs |-> <<>>]

---------------------------------------------------------------------------
(* hybridRetrieve, step by step *)

\* Step 2: the keyword scan over the listing (case-insensitive substring match)
keywordResults(allDocs, query) ==
    LET mapped == [i \in 1..Len(allDocs) |->
                     [id |-> allDocs[i].id, content |-> allDocs[i].content,
                      metadata |-> allDocs[i].metadata, distance |-> Frac(1, 2)]]
    IN SelectSeqBy(mapped,
          {i \in 1..Len(mapped) :
              /\ mapped[i].content # <<>>
              /\ includes(toLowerCase(mapped[i].content), toLowerCase(query))})

WithRrf(doc, rrf) ==
    [id |-> doc.id, content |-> doc.content, metadata |-> doc.metadata,
     distance |-> doc.distance, rrf |-> rrf]

\* merged[doc.id] = value: an existing key keeps its place, a new key is added last
PutKey(merged, cand) ==
    IF HasId(merged, cand.id)
    THEN [i \in 1..Len(merged) |-> IF merged[i].id = cand.id THEN cand ELSE merged[i]]
    ELSE Append(merged, cand)

RECURSIVE MergeVector(_, _, _)
\* Step 3, first loop: every vector result enters with rrf = 1 / rank
MergeVector(merged, vectorResults, rank) ==
    IF vectorResults = <<>> THEN merged
    ELSE MergeVector(PutKey(merged, WithRrf(Head(vectorResults), Frac(1, rank))),
                     Tail(vectorResults), rank + 1)

\* Ids that name a property every object literal inherits from Object.prototype:
\* merged[id] is truthy for them although no document was stored under id
PrototypeKeys ==
    {"constructor", "toString", "toLocaleString", "valueOf", "hasOwnProperty",
     "isPrototypeOf", "propertyIsEnumerable"}

\* Faulty variant of MergeKeywordDoc: a known id gets 1 / rank in place of its rrf
MergeKeywordDoc_Overwrite(merged, doc, rank) ==
    IF HasId(merged, doc.id)
    THEN [i \in 1..Len(merged) |->
            IF merged[i].id = doc.id THEN WithRrf(merged[i], Frac(1, rank)) ELSE merged[i]]
    ELSE IF doc.id \in PrototypeKeys THEN merged
    ELSE PutKey(merged, WithRrf(doc, Frac(1, rank)))

\* One keyword result at its rank: add 1 / rank to a known id, or enter the
\* document.  if (merged[doc.id]) also holds for an inherited property; the rrf
\* is then written to the inherited object and merged gets no key.
MergeKeywordDoc(merged, doc, rank) ==
    IF HasId(merged, doc.id)
    THEN [i \in 1..Len(merged) |->
            IF merged[i].id = doc.id
            THEN WithRrf(merged[i], FracAdd(merged[i].rrf, Frac(1, rank)))
            ELSE merged[i]]
    ELSE IF doc.id \in PrototypeKeys THEN merged
    ELSE PutKey(merged, WithRrf(doc, Frac(1, rank)))

RECURSIVE MergeKeyword(_, _, _)
\* Step 3, second loop: rank restarts at 1 for the keyword list
MergeKeyword(merged, keywordResults_, rank) ==
    IF keywordResults_ = <<>> THEN merged
    ELSE MergeKeyword(MergeKeywordDoc(merged, Head(keywordResults_), rank),
                      Tail(keywordResults_), rank + 1)

\* The value of an id that is an integer-like property key, -1 for any other id
ArrayIndex(id) == IF id = "7" THEN 7 ELSE -1

\* Object.values: integer-like keys first, in ascending order, then the other
\* keys in insertion order
ObjectValues(merged) ==
    LET n == Len(merged)
        Before(i, j) ==
            LET a == ArrayIndex(merged[i].id)
                b == ArrayIndex(merged[j].id)
            IN IF a >= 0 /\ b >= 0 THEN a < b
               ELSE IF a >= 0 THEN TRUE
               ELSE IF b >= 0 THEN FALSE
               ELSE i < j
        p == CHOOSE q \in Perms(1..n) : \A i, j \in 1..n : i < j => Before(q[i], q[j])
    IN [i \in 1..n |-> merged[p[i]]]

\* Faulty variant of fuse: the rank is not reset to 1 before the keyword loop
fuse_RankNotReset(vectorResults, keywordResults_) ==
    ObjectValues(MergeKeyword(MergeVector(<<>>, vectorResults, 1), keywordResults_,
                              Len(vectorResults) + 1))

\* Step 3: both loops, then Object.values(merged)
fuse(vectorResults, keywordResults_) ==
    ObjectValues(MergeKeyword(MergeVector(<<>>, vectorResults, 1), keywordResults_, 1))

\* Step 4: a given filter keeps the documents that equal it on every key
NoFilter == [given |-> FALSE, map |-> [k \in {} |-> ""]]

MatchesFilter(doc, filter) ==
    \A k \in DOMAIN filter.map :
        /\ k \in DOMAIN doc.metadata
        /\ doc.metadata[k].kind = "string"
        /\ doc.metadata[k].val = filter.map[k]

\* Faulty variant of applyFilter: a document passes when it matches on some key
applyFilter_AnyKey(results, filter) ==
    IF filter.given
    THEN SelectSeqBy(results,
            {i \in 1..Len(results) :
                \E k \in DOMAIN filter.map :
                    /\ k \in DOMAIN results[i].metadata
                    /\ results[i].metadata[k] = MV("string", filter.map[k])})
    ELSE results

applyFilter(results, filter) ==
    IF filter.given
    THEN SelectSeqBy(results, {i \in 1..Len(results) : MatchesFilter(results[i], filter)})
    ELSE results

\* A transformerScore: NaN, or the sign of the cosine and its square
ScoreZero == [nan |-> FALSE, sgn |-> 0, sq |-> <<0, 1>>]

ScoreNaN == [nan |-> TRUE, sgn |-> 0, sq |-> <<0, 1>>]

\* cosineSimilarity: dot / (normA * normB); 0 / 0 is NaN
cosineSimilarity(a, b) ==
    LET dot == a[1] * b[1] + a[2] * b[2]
        sqA == a[1] * a[1] + a[2] * a[2]
        sqB == b[1] * b[1] + b[2] * b[2]
    IN IF sqA * sqB = 0 THEN ScoreNaN
       ELSE [nan |-> FALSE, sgn |-> Sign(dot), sq |-> Frac(dot * dot, sqA * sqB)]

WithScore(doc, score) ==
    [id |-> doc.id, content |-> doc.content, metadata |-> doc.metadata,
     distance |-> doc.distance, rrf |-> doc.rrf, transformerScore |-> score]

\* Step 5, one candidate: its cosine score, or 0 when the reranker call throws
scoreDoc(query, doc, embedThrows) ==
    IF embedThrows THEN WithScore(doc, ScoreZero)
    ELSE WithScore(doc, cosineSimilarity(Embed(query), Embed(doc.content)))

\* Faulty variant of rerank: no try/catch around the scoring, so one rejected promise
\* rejects Promise.all and no candidate is scored
rerank_AbortOnFailure(query, results, failIds) ==
    IF \E i \in 1..Len(results) : results[i].id \in failIds THEN <<>>
    ELSE [i \in 1..Len(results) |-> scoreDoc(query, results[i], FALSE)]

\* Step 5, Promise.all over the candidates; failIds are the ids whose call throws
rerank(query, results, failIds) ==
    [i \in 1..Len(results) |-> scoreDoc(query, results[i], results[i].id \in failIds)]

\* x < y on scores that are numbers
ScoreLess(x, y) == FracLess(<<x.sgn * x.sq[1], x.sq[2]>>, <<y.sgn * y.sq[1], y.sq[2]>>)

\* Faulty variant of compareFn: candidates of the same score are ordered by
\* their rrf, the higher first
compareFn_RrfBreaksTies(a, b) ==
    IF a.transformerScore.nan \/ b.transformerScore.nan THEN 0
    ELSE IF ScoreLess(a.transformerScore, b.transformerScore) THEN 1
    ELSE IF ScoreLess(b.transformerScore, a.transformerScore) THEN -1
    ELSE IF FracLess(a.rrf, b.rrf) THEN 1
    ELSE IF FracLess(b.rrf, a.rrf) THEN -1
    ELSE 0

\* The sort's comparator (b.transformerScore ?? 0) - (a.transformerScore ?? 0),
\* as its sign; a NaN difference counts as 0
compareFn(a, b) ==
    IF a.transformerScore.nan \/ b.transformerScore.nan THEN 0
    ELSE IF ScoreLess(a.transformerScore, b.transformerScore) THEN 1
    ELSE IF ScoreLess(b.transformerScore, a.transformerScore) THEN -1
    ELSE 0

\* Whether compareFn is a consistent comparator on the elements of the list
ConsistentComparator(list) ==
    \A i, j, k \in 1..Len(list) :
        /\ (compareFn(list[i], list[j]) = 0 /\ compareFn(list[j], list[k]) = 0)
              => compareFn(list[i], list[k]) = 0
        /\ (compareFn(list[i], list[j]) < 0 /\ compareFn(list[j], list[k]) < 0)
              => compareFn(list[i], list[k]) < 0

\* Array.prototype.sort: the stable order under a consistent comparator, an
\* implementation-defined order of the same elements otherwise
SortOutcomes(list) ==
    LET n == Len(list)
        stable == {p \in Perms(1..n) :
                     \A i, j \in 1..n : i < j =>
                        \/ compareFn(list[p[i]], list[p[j]]) < 0
                        \/ compareFn(list[p[i]], list[p[j]]) = 0 /\ p[i] < p[j]}
        orders == IF ConsistentComparator(list) THEN stable ELSE Perms(1..n)
    IN {[i \in 1..n |-> list[p[i]]] : p \in orders}

HybNone ==
    [called |-> FALSE, threw |-> FALSE, fault |-> "none", query |-> <<>>, nResults |-> 0, filter |-> NoFilter,
     failIds |-> {}, vectorResults |-> <<>>, keywordResults |-> <<>>, fused |-> <<>>,
     filtered |-> <<>>, scored |-> <<>>, results |-> <<>>]

\* What can go wrong outside the per-candidate scoring: nothing, the similarity
\* query throws, the listing throws, the reranker pipeline fails to load
Faults == {"none", "vector", "list", "pipeline"}

IdsOf(list) == {list[i].id : i \in 1..Len(list)}

\* hybridRetrieve up to step 4 on a snapshot of the collection: every candidate
\* list the fusion and the filter can produce
hybridFused(st, query, nResults, filter, fault) ==
    { LET vec == retrieveDocuments(fault # "vector", answer).docs
          kw == keywordResults(listDocuments(TRUE, st).docs, query)
          fused == fuse(vec, kw)
      IN [HybNone EXCEPT !.called = TRUE, !.fault = fault, !.query = query,
                         !.nResults = nResults, !.filter = filter, !.vectorResults = vec, !.keywordResults = kw,
                         !.fused = fused, !.filtered = applyFilter(fused, filter)]
      : answer \in QueryAnswers(st, query, nResults * 2) }

\* Step 5 and the final sort and slice, for the candidates whose scoring throws
hybridRanked(h, failIds) ==
    LET scored == rerank(h.query, h.filtered, failIds)
    IN { [h EXCEPT !.failIds = failIds, !.scored = scored,
                   !.results = slice0(sorted, h.nResults)] : sorted \in SortOutcomes(scored) }

\* hybridRetrieve: every record it can produce.  Nothing catches an Error of
\* retrieveDocuments, of listDocuments or of the pipeline's load: the call rejects.
hybridRetrieve(st, query, nResults, filter, fault) ==
    IF \/ retrieveDocuments(fault # "vector", <<>>).threw
       \/ listDocuments(fault # "list", st).threw
       \/ fault = "pipeline"
    THEN { [HybNone EXCEPT !.called = TRUE, !.threw = TRUE, !.fault = fault, !.query = query,
                           !.nResults = nResults, !.filter = filter] }
    ELSE UNION { UNION { hybridRanked(h, failIds) : failIds \in SUBSET IdsOf(h.filtered) }
                 : h \in hybridFused(st, query, nResults, filter, fault) }

---------------------------------------------------------------------------
(* Step 5 of hybridRetrieve, promise by promise: results.map(async ...) makes *)
(* one promise per candidate, the promises settle in any order, Promise.all   *)
(* resolves when all have settled, then the array is sorted and sliced.       *)

Unsettled == [settled |-> FALSE]

Settled(doc) == [settled |-> TRUE, value |-> doc]

\* Faulty variant of collect: the values in the order in which the promises settled
collect_InCompletionOrder(slots, order) ==
    [k \in 1..Len(slots) |-> slots[order[k]].value]

\* The array Promise.all resolves to: the promises' values in the order of the
\* promises, whatever the order in which they settled
collect(slots, order) ==
    [i \in 1..Len(slots) |-> slots[i].value]

NoSort == [given |-> FALSE, input |-> <<>>, output |-> <<>>]

\* The place of the element with the given id
PosIn(list, id) == CHOOSE i \in 1..Len(list) : list[i].id = id

\* What the sort sees of an array: its length and what compareFn answers
Outcomes(list) == [i \in 1..Len(list) |-> [j \in 1..Len(list) |-> compareFn(list[i], list[j])]]

\* results.sort(compareFn) in an engine that has sorted the array seen.input
\* before: the order an engine gives under an inconsistent comparator is
\* implementation-defined, and the same whenever the comparator answers the same
sortAgain(list, seen) ==
    IF seen.given /\ Outcomes(seen.input) = Outcomes(list)
    THEN {[i \in 1..Len(list) |-> list[PosIn(seen.input, seen.output[i].id)]]}
    ELSE SortOutcomes(list)

RerankNone ==
    [pc |-> "idle", call |-> 0, query |-> <<>>, nResults |-> 0, candidates |-> <<>>,
     failIds |-> {}, slots |-> <<>>, order |-> <<>>, scored |-> <<>>, results |-> <<>>,
     seen |-> NoSort, firstOrder |-> <<>>, firstResults |-> <<>>]

\* The promises of results.map(async (doc) => ...), none settled yet
rerankStart(r, query, nResults, candidates, failIds) ==
    [r EXCEPT !.pc = "scoring", !.call = @ + 1, !.query = query, !.nResults = nResults,
              !.candidates = candidates, !.failIds = failIds,
              !.slots = [i \in 1..Len(candidates) |-> Unsettled],
              !.order = <<>>, !.scored = <<>>, !.results = <<>>]

\* The promise of candidate i settles: with its score, or with 0 after the catch
rerankSettle(r, i) ==
    [r EXCEPT !.slots[i] = Settled(scoreDoc(r.query, r.candidates[i],
                                            r.candidates[i].id \in r.failIds)),
              !.order = Append(@, i)]

\* await Promise.all(...) has resolved: sort, slice
rerankFinish(r, sorted) ==
    [r EXCEPT !.pc = "done", !.scored = collect(r.slots, r.order),
              !.results = slice0(sorted, r.nResults),
              !.seen = IF r.seen.given THEN @
                       ELSE [given |-> TRUE, input |-> collect(r.slots, r.order),
                             output |-> sorted],
              !.firstOrder = IF r.call = 1 THEN r.order ELSE @,
              !.firstResults = IF r.call = 1 THEN slice0(sorted, r.nResults) ELSE @]

---------------------------------------------------------------------------
(* iterativeRetrieve *)

Newline == "\n"

LitAnswerTo == <<"L", "L", "M", " ", "a", "n", "s", "w", "e", "r", " ", "t", "o", ":", " ">>

LitContext == <<" ", "(", "c", "o", "n", "t", "e", "x", "t", ":", " ">>

LitEnd == <<".", ".", ".", ")">>

SliceLen == 100

IterResults == 3

\* results.map((doc) => doc.content).join("\n\n")
contextOf(results) ==
    Join([i \in 1..Len(results) |-> results[i].content], <<Newline, Newline>>)

\* `LLM answer to: ${currentQuery} (context: ${context.slice(0, 100)}...)`
generated(currentQuery, context) ==
    LitAnswerTo \o currentQuery \o LitContext \o slice0(context, SliceLen) \o LitEnd

\* queries and rounds are the history of the loop: the query each round
\* retrieved with and the candidates it got
IterNone ==
    [pc |-> "idle", query |-> <<>>, steps |-> 0, i |-> 0, currentQuery |-> <<>>,
     allContexts |-> <<>>, emptyRounds |-> 0, threwBy |-> "none",
     queries |-> <<>>, rounds |-> <<>>]

\* Faulty variant of iterRound: the generated text is not fed back as the query
iterRound_KeepQuery(it, h) ==
    IF h.threw THEN [it EXCEPT !.pc = "threw", !.threwBy = h.fault]
    ELSE LET context == contextOf(h.results)
         IN [it EXCEPT !.allContexts = Append(@, context),
                       !.i = @ + 1,
                       !.emptyRounds = @ + (IF h.results = <<>> THEN 1 ELSE 0),
                       !.queries = Append(@, h.query),
                       !.rounds = Append(@, h.results)]

\* One pass of the loop body on the outcome h of its hybridRetrieve call
iterRound(it, h) ==
    IF h.threw THEN [it EXCEPT !.pc = "threw", !.threwBy = h.fault]
    ELSE LET context == contextOf(h.results)
         IN [it EXCEPT !.allContexts = Append(@, context),
                       !.currentQuery = generated(it.currentQuery, context),
                       !.i = @ + 1,
                       !.emptyRounds = @ + (IF h.results = <<>> THEN 1 ELSE 0),
                       !.queries = Append(@, h.query),
                       !.rounds = Append(@, h.results)]

---------------------------------------------------------------------------
(* ChromaRetriever.retrieve and the provenance it writes *)

\* "No relevant documents found in the knowledge base."
NoDocumentsMessage ==
    <<"N", "o", " ", "r", "e", "l", "e", "v", "a", "n", "t", " ", "d", "o", "c", "u", "m", "e",
      "n", "t", "s", " ", "f", "o", "u", "n", "d", " ", "i", "n", " ", "t", "h", "e", " ", "k",
      "n", "o", "w", "l", "e", "d", "g", "e", " ", "b", "a", "s", "e", ".">>

LitDocument == <<"D", "o", "c", "u", "m", "e", "n", "t", " ">>

LitId == <<" ", "(", "I", "D", ":", " ">>

LitDistance == <<",", " ", "D", "i", "s", "t", "a", "n", "c", "e", ":", " ">>

LitBlockEnd == <<")", ":", "\n">>

\* "\n\n---\n\n"
BlockSeparator == <<"\n", "\n", "-", "-", "-", "\n", "\n">>

DigitChars == <<"0", "1", "2", "3", "4", "5", "6", "7", "8", "9">>

RECURSIVE Digits(_)
\* The decimal digits of a natural number
Digits(n) == IF n < 10 THEN <<DigitChars[n + 1]>> ELSE Digits(n \div 10) \o <<DigitChars[(n % 10) + 1]>>

FixedDecimals == 4

FixedScale == 10000

RECURSIVE PadLeft(_, _)
PadLeft(t, n) == IF Len(t) >= n THEN t ELSE PadLeft(<<"0">> \o t, n)

\* Number.prototype.toFixed(4) of a fraction that is not negative
toFixed4(x) ==
    LET scaled == (2 * x[1] * FixedScale + x[2]) \div (2 * x[2])
    IN Digits(scaled \div FixedScale) \o <<".">> \o PadLeft(Digits(scaled % FixedScale), FixedDecimals)

\* Faulty variant of formatDoc: the blocks are numbered from 0
formatDoc_ZeroBased(doc, index) ==
    LitDocument \o Digits(index) \o LitId \o <<doc.id>> \o LitDistance
        \o toFixed4(doc.distance) \o LitBlockEnd \o doc.content

\* `Document ${index + 1} (ID: ${doc.id}, Distance: ${doc.distance.toFixed(4)}):\n${doc.content}`
formatDoc(doc, index) ==
    LitDocument \o Digits(index + 1) \o LitId \o <<doc.id>> \o LitDistance
        \o toFixed4(doc.distance) \o LitBlockEnd \o doc.content

\* The input's search text: the string itself, or the last message's content,
\* its "text" parts joined by a space when the content is a list of parts
searchTextOf(input) ==
    IF input.kind = "string" THEN input.text
    ELSE IF input.messages = <<>> THEN <<>>
    ELSE LET lastMessage == input.messages[Len(input.messages)]
         IN IF lastMessage.isParts
            THEN LET textParts == SelectSeqBy(lastMessage.parts,
                                     {i \in 1..Len(lastMessage.parts) : lastMessage.parts[i].type = "text"})
                 IN Join([i \in 1..Len(textParts) |-> textParts[i].text], <<" ">>)
            ELSE lastMessage.content

DefaultTitles == <<"Document 1", "Document 2", "Document 3">>

\* a ?? b on a metadata key: the stored value unless it is missing or null
Coalesce(metadata, key, default) ==
    IF key \in DOMAIN metadata /\ metadata[key].kind \notin {"null", "undefined"}
    THEN metadata[key] ELSE MV("string", default)

referencesOf(results) ==
    [i \in 1..Len(results) |->
        [id |-> results[i].id,
         title |-> Coalesce(results[i].metadata, "title", DefaultTitles[i]),
         source |-> Coalesce(results[i].metadata, "source", "Chroma Knowledge Base"),
         distance |-> results[i].distance]]

RetrieveResults == 3

\* options.userContext.set("references", references)
setReferences(uc, references) == [uc EXCEPT !.references = references]

\* Faulty variant of retrieve: the references are set on an empty result too
retrieve_AlwaysSet(input, uc, storeOk, answer) ==
    LET found == retrieveDocuments(storeOk, answer)
        results == found.docs
        after == IF uc.given THEN setReferences(uc, referencesOf(results)) ELSE uc
    IN [threw |-> FALSE,
        out |-> IF Len(results) = 0 THEN NoDocumentsMessage
                ELSE Join([i \in 1..Len(results) |-> formatDoc(results[i], i - 1)],
                          BlockSeparator),
        results |-> results,
        userContext |-> after]

\* ChromaRetriever.retrieve(input, options) on the store's answer: the returned
\* string (or the rejection) and the userContext after the call
retrieve(input, uc, storeOk, answer) ==
    LET found == retrieveDocuments(storeOk, answer)
        results == found.docs
        after == IF uc.given /\ Len(results) > 0
                 THEN setReferences(uc, referencesOf(results)) ELSE uc
    IN IF found.threw
       THEN [threw |-> TRUE, out |-> <<>>, results |-> <<>>, userContext |-> uc]
       ELSE [threw |-> FALSE,
             out |-> IF Len(results) = 0 THEN NoDocumentsMessage
                     ELSE Join([i \in 1..Len(results) |-> formatDoc(results[i], i - 1)],
                               BlockSeparator),
             results |-> results,
             userContext |-> after]

\* DocumentRetriever.searchFilesystem's provenance write: read the list, push
\* one entry, set the list
pushReference(uc, entry) == [uc EXCEPT !.references = Append(@, entry)]

---------------------------------------------------------------------------
(* semanticChunk and transformerSemanticChunk *)

Whitespace == {" ", "\n"}

Terminators == {".", "!", "?", "\n"}

RECURSIVE trimStart(_)
trimStart(t) == IF t # <<>> /\ Head(t) \in Whitespace THEN trimStart(Tail(t)) ELSE t

RECURSIVE trimEnd(_)
trimEnd(t) ==
    IF t # <<>> /\ t[Len(t)] \in Whitespace THEN trimEnd(SubSeq(t, 1, Len(t) - 1)) ELSE t

\* String.prototype.trim
trim(t) == trimEnd(trimStart(t))

RECURSIVE RunEnd(_, _, _)
\* The last index of the longest run of characters of `chars` that starts at i
RunEnd(t, i, chars) ==
    IF i < Len(t) /\ t[i + 1] \in chars THEN RunEnd(t, i + 1, chars) ELSE i

RECURSIVE splitFrom(_, _, _)
\* text.split(/\n\s*\n/) from index i on, the piece in progress starting at
\* `start`: a separator runs from a newline to the last newline of the
\* whitespace that follows it
splitFrom(t, i, start) ==
    IF i > Len(t) THEN <<SubSeq(t, start, Len(t))>>
    ELSE IF t[i] # "\n" THEN splitFrom(t, i + 1, start)
    ELSE LET e == RunEnd(t, i, Whitespace)
             newlines == {k \in (i + 1)..e : t[k] = "\n"}
         IN IF newlines = {} THEN splitFrom(t, i + 1, start)
            ELSE LET last == CHOOSE k \in newlines : \A m \in newlines : m <= k
                 IN <<SubSeq(t, start, i - 1)>> \o splitFrom(t, last + 1, last + 1)

paragraphsOf(text) == splitFrom(text, 1, 1)

RECURSIVE matchFrom(_, _)
\* The matches of /[^.!?\n]+[.!?\n]+/g from index i on
matchFrom(t, i) ==
    IF i > Len(t) THEN <<>>
    ELSE IF t[i] \in Terminators THEN matchFrom(t, i + 1)
    ELSE LET j == RunEnd(t, i, {c \in Range(t) : c \notin Terminators})
         IN IF j = Len(t) THEN <<>>
            ELSE LET k == RunEnd(t, j + 1, Terminators)
                 IN <<SubSeq(t, i, k)>> \o matchFrom(t, k + 1)

\* text.match(/[^.!?\n]+[.!?\n]+/g) || [text]
sentencesOf(text) ==
    LET matches == matchFrom(text, 1)
    IN IF matches = <<>> THEN <<text>> ELSE matches

ParagraphSeparator == <<"\n", "\n">>

SentenceSeparator == <<" ">>

RECURSIVE groupParagraphs(_, _, _, _, _)
\* The loop of semanticChunk over the paragraphs, then the push of what is left
groupParagraphs(paragraphs, i, current, chunks, maxChunkSize) ==
    IF i > Len(paragraphs)
    THEN IF Len(trim(current)) > 0 THEN Append(chunks, trim(current)) ELSE chunks
    ELSE LET para == paragraphs[i]
         IN IF Len(current \o ParagraphSeparator \o para) > maxChunkSize /\ Len(current) > 0
            THEN groupParagraphs(paragraphs, i + 1, para, Append(chunks, trim(current)),
                                 maxChunkSize)
            ELSE groupParagraphs(paragraphs, i + 1,
                     current \o (IF current # <<>> THEN ParagraphSeparator ELSE <<>>) \o para,
                     chunks, maxChunkSize)

RECURSIVE groupSentences(_, _, _, _, _, _)
\* The loop of transformerSemanticChunk over the sentences: currentLen adds up
\* the sentences' lengths only
groupSentences(sentences, i, currentChunk, currentLen, chunks, maxChunkSize) ==
    IF i > Len(sentences)
    THEN IF Len(trim(currentChunk)) > 0 THEN Append(chunks, trim(currentChunk)) ELSE chunks
    ELSE LET sentence == sentences[i]
         IN IF currentLen + Len(sentence) > maxChunkSize /\ Len(currentChunk) > 0
            THEN groupSentences(sentences, i + 1, sentence, Len(sentence),
                                Append(chunks, trim(currentChunk)), maxChunkSize)
            ELSE groupSentences(sentences, i + 1,
                     currentChunk \o (IF currentChunk # <<>> THEN SentenceSeparator ELSE <<>>)
                         \o sentence,
                     currentLen + Len(sentence), chunks, maxChunkSize)

RECURSIVE mergeSmall(_, _, _, _, _)
\* "Merge small chunks with neighbors": a chunk shorter than minChunkSize is
\* added to the last merged chunk, when there is one
mergeSmall(chunks, i, merged, minChunkSize, separator) ==
    IF i > Len(chunks) THEN merged
    ELSE IF Len(chunks[i]) < minChunkSize /\ Len(merged) > 0
         THEN mergeSmall(chunks, i + 1,
                  [merged EXCEPT ![Len(merged)] = @ \o separator \o chunks[i]],
                  minChunkSize, separator)
         ELSE mergeSmall(chunks, i + 1, Append(merged, chunks[i]), minChunkSize, separator)

semanticChunk(text, maxChunkSize, minChunkSize) ==
    mergeSmall(groupParagraphs(paragraphsOf(text), 1, <<>>, <<>>, maxChunkSize),
               1, <<>>, minChunkSize, ParagraphSeparator)

\* transformerSemanticChunk: the embeddings it computes are not used by the
\* grouping; the call rejects when the pipeline or an embedding fails
transformerSemanticChunk(text, maxChunkSize, minChunkSize, embedThrows) ==
    IF embedThrows THEN [threw |-> TRUE, chunks |-> <<>>]
    ELSE [threw |-> FALSE,
          chunks |-> mergeSmall(groupSentences(sentencesOf(text), 1, <<>>, 0, <<>>,
                                               maxChunkSize),
                                1, <<>>, minChunkSize, SentenceSeparator)]

---------------------------------------------------------------------------
(* The write paths: upsertDocuments, upsertWithChunks, upsertFile,            *)
(* upsertContext, deleteDocument, and the sample documents written when the   *)
(* module of lines 504-651 is loaded.  Numbers in metadata are kept as their  *)
(* decimal strings.                                                           *)

\* {...(metadata || {}), key: value, ...}: the spread keys, then the listed ones
Extend(metadata, extra) ==
    [k \in DOMAIN metadata \cup DOMAIN extra |->
        IF k \in DOMAIN extra THEN extra[k] ELSE metadata[k]]

\* The outcome of a call that ends in upsertDocuments(docs): nothing catches an
\* error of getCollection or collection.upsert
upsertCall(st, docs, storeOk) ==
    [threw |-> ~storeOk, docs |-> docs, chunks |-> <<>>, chunked |-> FALSE, upserts |-> 1,
     store |-> IF storeOk THEN upsertDocuments(st, docs) ELSE st]

\* The call ended before it reached upsertDocuments
Rejected(st) ==
    [threw |-> TRUE, docs |-> <<>>, chunks |-> <<>>, chunked |-> FALSE, upserts |-> 0, store |-> st]

\* Faulty variant of chunkDocs: chunkTotal is the chunk's own index
chunkDocs_TotalIsIndex(doc, chunks) ==
    [n \in 1..Len(chunks) |->
        [id |-> doc.id \o "::chunk" \o ToString(n),
         content |-> chunks[n],
         metadata |-> Extend(doc.metadata,
                             [chunkIndex |-> MV("number", ToString(n)),
                              chunkTotal |-> MV("number", ToString(n)),
                              parentId |-> MV("string", doc.id)])]]

\* chunks.map((chunk, i) => ...): n stands for i + 1
chunkDocs(doc, chunks) ==
    [n \in 1..Len(chunks) |->
        [id |-> doc.id \o "::chunk" \o ToString(n),
         content |-> chunks[n],
         metadata |-> Extend(doc.metadata,
                             [chunkIndex |-> MV("number", ToString(n)),
                              chunkTotal |-> MV("number", ToString(Len(chunks))),
                              parentId |-> MV("string", doc.id)])]]

\* upsertWithChunks(doc, {chunkOptions, useTransformerChunking})
upsertWithChunks(st, doc, maxChunkSize, minChunkSize, useTransformerChunking, embedThrows, storeOk) ==
    LET chunked == IF useTransformerChunking
                   THEN transformerSemanticChunk(doc.content, maxChunkSize, minChunkSize, embedThrows)
                   ELSE [threw |-> FALSE, chunks |-> semanticChunk(doc.content, maxChunkSize, minChunkSize)]
    IN IF chunked.threw THEN Rejected(st)
       ELSE [upsertCall(st, chunkDocs(doc, chunked.chunks), storeOk)
                EXCEPT !.chunks = chunked.chunks, !.chunked = TRUE]

\* upsertFile(filePath, {id, metadata}): fs.readFile's error is thrown on; an id
\* that is missing or "" gives way to the path
upsertFile(st, filePath, options, file, storeOk) ==
    IF ~file.readable THEN Rejected(st)
    ELSE upsertCall(st,
            <<[id |-> IF options.id # "" THEN options.id ELSE filePath,
               content |-> file.content,
               metadata |-> Extend(options.metadata, [filePath |-> MV("string", filePath)])]>>,
            storeOk)

\* JSON.stringify(value, null, 2) of an object whose values are strings of
\* letters, given as its list of key and value
stringify(entries) ==
    IF entries = <<>> THEN <<"{", "}">>
    ELSE <<"{", "\n">>
         \o Join([i \in 1..Len(entries) |->
                    <<" ", " ", "\"">> \o entries[i].key \o <<"\"", ":", " ", "\"">>
                        \o entries[i].value \o <<"\"">>],
                 <<",", "\n">>)
         \o <<"\n", "}">>

\* upsertContext(contextService, {id, metadata}) at clock value now
upsertContext(st, contextData, options, now, storeOk) ==
    upsertCall(st,
        <<[id |-> IF options.id # "" THEN options.id ELSE "context-" \o ToString(now),
           content |-> stringify(contextData),
           metadata |-> Extend(options.metadata, [type |-> MV("string", "chat-context")])]>>,
        storeOk)

\* sampleDocuments, each text kept as one unit
SampleDocuments ==
    << <<"VoltAgent is a TypeScript framework for building AI agents with modular components.">>,
       <<"Chroma is an AI-native open-source vector database that handles embeddings automatically.">>,
       <<"Vector databases store high-dimensional vectors and enable semantic search capabilities.">>,
       <<"Retrieval-Augmented Generation (RAG) combines information retrieval with language generation.">>,
       <<"TypeScript provides static typing for JavaScript, making code more reliable and maintainable.">> >>

\* initializeCollection(): the samples are upserted as sample_1 .. sample_5;
\* any error is caught and logged
initializeCollection(st, storeOk) ==
    IF ~storeOk THEN st
    ELSE UpsertRows(st,
            [n \in 1..Len(SampleDocuments) |->
                [id |-> "sample_" \o ToString(n),
                 content |-> SampleDocuments[n],
                 metadata |-> [type |-> MV("string", "sample"),
                               index |-> MV("number", ToString(n)),
                               topic |-> MV("string", IF n - 1 < 2 THEN "frameworks"
                                                      ELSE IF n - 1 < 4 THEN "databases"
                                                      ELSE "programming")]]])

RetrieveByTypeResults == 10

\* retrieveByType(type, query, nResults): the nearest ten, those of the type, sliced
retrieveByType(type, nResults, storeOk, answer) ==
    LET allResults == retrieveDocuments(storeOk, answer).docs
    IN slice0(SelectSeqBy(allResults,
                 {i \in 1..Len(allResults) :
                     /\ "type" \in DOMAIN allResults[i].metadata
                     /\ allResults[i].metadata["type"] = MV("string", type)}),
              nResults)

\* The record of a call on a write path with outcome r, made on the store st
written(w, kind, id, r, st) ==
    [w EXCEPT !.kind = kind, !.threw = r.threw, !.calls = @ + 1, !.id = id, !.docs = r.docs,
              !.chunks = r.chunks, !.chunked = r.chunked, !.upserts = r.upserts,
              !.before = st,
              !.put = IF r.threw THEN @ ELSE @ \cup IdsOf(r.docs)]

---------------------------------------------------------------------------
(* The inputs of the model *)

Queries == {<<"a">>, <<"B">>}

Filters == {NoFilter,
            [given |-> TRUE, map |-> [k \in {} |-> ""]],
            [given |-> TRUE, map |-> [type |-> "t"]],
            [given |-> TRUE, map |-> [type |-> "t", title |-> "X"]]}

BatchesOf(inputs) == UNION {[1..n -> inputs] : n \in 1..MaxBatch}

DistinctIds(docs) == \A i, j \in 1..Len(docs) : i # j => docs[i].id # docs[j].id

UserContextNone == [given |-> FALSE, references |-> <<>>]

RetNone ==
    [called |-> FALSE, threw |-> FALSE, fault |-> "none", input |-> [kind |-> "string", text |-> <<>>],
     out |-> <<>>, results |-> <<>>, before |-> <<>>]

ChkNone ==
    [called |-> FALSE, threw |-> FALSE, mode |-> "none", text |-> <<>>, maxSize |-> 1,
     minSize |-> 1, units |-> <<>>, chunks |-> <<>>]

\* No call on a write path yet.  calls counts the calls made, put holds the ids
\* the caller has upserted and not deleted since, initialized tells whether the
\* load-time initializeCollection() has settled.
WriteNone ==
    [kind |-> "none", threw |-> FALSE, calls |-> 0, id |-> "", docs |-> <<>>, chunks |-> <<>>,
     chunked |-> FALSE, upserts |-> 0, before |-> <<>>, put |-> {}, initialized |-> FALSE]

---------------------------------------------------------------------------
(* The store and hybridRetrieve as a state machine.  The caller makes one    *)
(* call at a time; hyb holds a call's outcome until the call has returned.   *)

Init ==
    /\ store = <<>>
    /\ hyb = HybNone
    /\ iter = IterNone
    /\ userContext = UserContextNone
    /\ ret = RetNone
    /\ chk = ChkNone
    /\ rr = RerankNone
    /\ wr = WriteNone

Idle == ~hyb.called /\ ~ret.called

\* upsertDocuments(docs) for a batch drawn from the given inputs
UpsertFrom(inputs) ==
    /\ Idle
    /\ \E docs \in BatchesOf(inputs) :
        /\ DistinctIds(docs)
        /\ store' = upsertDocuments(store, docs)

\* deleteDocument(id)
DeleteFrom(ids) ==
    /\ Idle
    /\ \E id \in ids : store' = deleteDocument(store, id)

Upsert ==
    /\ UpsertFrom(DocInputs)
    /\ UNCHANGED <<hyb, iter, userContext, ret, chk, rr, wr>>

Delete ==
    /\ DeleteFrom(Ids)
    /\ UNCHANGED <<hyb, iter, userContext, ret, chk, rr, wr>>

\* hybridRetrieve({query, nResults, filter})
HybridRetrieve ==
    /\ Idle
    /\ \E query \in Queries, nResults \in 1..MaxResults, filter \in Filters, fault \in Faults :
            hyb' \in hybridRetrieve(store, query, nResults, filter, fault)
    /\ UNCHANGED <<store, iter, userContext, ret, chk, rr, wr>>

\* The call's promise settles and the caller goes on
HybridReturn ==
    /\ hyb.called
    /\ hyb' = HybNone
    /\ UNCHANGED <<store, iter, userContext, ret, chk, rr, wr>>

Next ==
    \/ Upsert
    \/ Delete
    \/ HybridRetrieve
    \/ HybridReturn

Spec == Init /\ [][Next]_vars

---------------------------------------------------------------------------
(* iterativeRetrieve as a state machine: one action per pass of its loop,    *)
(* with upserts and deletes by other callers between the passes.             *)

IterIds == {"A", "B"}

IterBodies == {b \in Bodies : "title" \notin DOMAIN b.metadata}

IterUpsert ==
    /\ UpsertFrom(DocsOf(IterIds, IterBodies))
    /\ UNCHANGED <<hyb, iter, userContext, ret, chk, rr, wr>>

IterDelete ==
    /\ DeleteFrom(IterIds)
    /\ UNCHANGED <<hyb, iter, userContext, ret, chk, rr, wr>>

\* iterativeRetrieve({query, steps}): entry
IterStart ==
    /\ iter.pc = "idle"
    /\ \E query \in Queries, steps \in 0..MaxSteps :
          iter' = [IterNone EXCEPT !.pc = "loop", !.query = query, !.steps = steps,
                                   !.currentQuery = query]
    /\ UNCHANGED <<store, hyb, userContext, ret, chk, rr, wr>>

\* iterativeRetrieve: one pass of the loop body
IterRound ==
    /\ iter.pc = "loop"
    /\ iter.i < iter.steps
    /\ \E fault \in Faults :
          \E h \in hybridRetrieve(store, iter.currentQuery, IterResults, NoFilter, fault) :
              iter' = iterRound(iter, h)
    /\ UNCHANGED <<store, hyb, userContext, ret, chk, rr, wr>>

\* iterativeRetrieve: the loop ends and allContexts is returned
IterReturn ==
    /\ iter.pc = "loop"
    /\ ~(iter.i < iter.steps)
    /\ iter' = [iter EXCEPT !.pc = "done"]
    /\ UNCHANGED <<store, hyb, userContext, ret, chk, rr, wr>>

\* The caller has taken the result (or the rejection) of iterativeRetrieve
IterDone ==
    /\ iter.pc \in {"done", "threw"}
    /\ iter' = IterNone
    /\ UNCHANGED <<store, hyb, userContext, ret, chk, rr, wr>>

NextIter ==
    \/ IterUpsert
    \/ IterDelete
    \/ IterStart
    \/ IterRound
    \/ IterReturn
    \/ IterDone

SpecIter == Init /\ [][NextIter]_vars

---------------------------------------------------------------------------
(* ChromaRetriever.retrieve as a state machine, on a userContext that the     *)
(* filesystem retriever of retriever.ts writes to as well.                    *)

RetrIds == {"A", "B"}

RetrBodies == Bodies

TextPart(t) == [type |-> "text", text |-> t]

\* The inputs of retrieve: a string, an empty message list, a message with a
\* string content, a message whose content is a list of parts
RetrieveInputs ==
    { [kind |-> "string", text |-> <<"a">>],
      [kind |-> "messages", messages |-> <<>>],
      [kind |-> "messages",
       messages |-> <<[isParts |-> FALSE, content |-> <<"B">>, parts |-> <<>>]>>],
      [kind |-> "messages",
       messages |-> <<[isParts |-> FALSE, content |-> <<"B">>, parts |-> <<>>],
                      [isParts |-> TRUE, content |-> <<>>,
                       parts |-> <<TextPart(<<"a">>), [type |-> "image", text |-> <<>>],
                                   TextPart(<<"B">>)>>]>>] }

\* How the store answers: it answers, it cannot be reached (collection.query
\* throws), it is not configured (getCollection throws)
StoreFaults == {"none", "unreachable", "unconfigured"}

InitRetriever ==
    /\ store = <<>>
    /\ hyb = HybNone
    /\ iter = IterNone
    /\ userContext \in {UserContextNone, [given |-> TRUE, references |-> <<>>]}
    /\ ret = RetNone
    /\ chk = ChkNone
    /\ rr = RerankNone
    /\ wr = WriteNone

RetrUpsert ==
    /\ UpsertFrom(DocsOf(RetrIds, RetrBodies))
    /\ UNCHANGED <<hyb, iter, userContext, ret, chk, rr, wr>>

RetrDelete ==
    /\ DeleteFrom(RetrIds)
    /\ UNCHANGED <<hyb, iter, userContext, ret, chk, rr, wr>>

\* chromaRetriever.retrieve(input, {userContext})
Retrieve ==
    /\ Idle
    /\ \E input \in RetrieveInputs, fault \in StoreFaults :
        \E answer \in QueryAnswers(store, searchTextOf(input), RetrieveResults) :
            LET r == retrieve(input, userContext, fault = "none", answer)
            IN /\ ret' = [called |-> TRUE, threw |-> r.threw, fault |-> fault, input |-> input,
                          out |-> r.out, results |-> r.results,
                          before |-> userContext.references]
               /\ userContext' = r.userContext
    /\ UNCHANGED <<store, hyb, iter, chk, rr, wr>>

\* The call's promise settles and the caller goes on
RetrieveReturn ==
    /\ ret.called
    /\ ret' = RetNone
    /\ UNCHANGED <<store, hyb, iter, userContext, chk, rr, wr>>

\* DocumentRetriever.searchFilesystem with the same userContext
SearchFilesystem ==
    /\ Idle
    /\ userContext.given
    /\ Len(userContext.references) < MaxRefs
    /\ \E query \in Queries, status \in {"completed", "error"} :
          userContext' = pushReference(userContext,
                            [source |-> "filesystem", query |-> query, status |-> status])
    /\ UNCHANGED <<store, hyb, iter, ret, chk, rr, wr>>

NextRetriever ==
    \/ RetrUpsert
    \/ RetrDelete
    \/ Retrieve
    \/ RetrieveReturn
    \/ SearchFilesystem

SpecRetriever == InitRetriever /\ [][NextRetriever]_vars

---------------------------------------------------------------------------
(* The chunkers as a state machine: a text and the two sizes are drawn, then   *)
(* one of the chunkers is applied to them.                                     *)

Alphabet == {"x", ".", " ", "\n"}

Texts == UNION {[1..n -> Alphabet] : n \in 0..MaxTextLen}

InitChunk ==
    /\ store = <<>>
    /\ hyb = HybNone
    /\ iter = IterNone
    /\ userContext = UserContextNone
    /\ ret = RetNone
    /\ \E text \in Texts, maxSize \in 1..MaxChunkSize :
         \E minSize \in 1..maxSize :
            chk = [ChkNone EXCEPT !.text = text, !.maxSize = maxSize, !.minSize = minSize]
    /\ rr = RerankNone
    /\ wr = WriteNone

\* semanticChunk(text, {maxChunkSize, minChunkSize})
SemanticChunk ==
    /\ ~chk.called
    /\ chk' = [chk EXCEPT !.called = TRUE, !.mode = "paragraph",
                          !.units = paragraphsOf(chk.text),
                          !.chunks = semanticChunk(chk.text, chk.maxSize, chk.minSize)]
    /\ UNCHANGED <<store, hyb, iter, userContext, ret, rr, wr>>

\* transformerSemanticChunk(text, {maxChunkSize, minChunkSize})
TransformerSemanticChunk ==
    /\ ~chk.called
    /\ \E embedThrows \in BOOLEAN :
         LET r == transformerSemanticChunk(chk.text, chk.maxSize, chk.minSize, embedThrows)
         IN chk' = [chk EXCEPT !.called = TRUE, !.mode = "embedding", !.threw = r.threw,
                               !.units = sentencesOf(chk.text), !.chunks = r.chunks]
    /\ UNCHANGED <<store, hyb, iter, userContext, ret, rr, wr>>

NextChunk ==
    \/ SemanticChunk
    \/ TransformerSemanticChunk

SpecChunk == InitChunk /\ [][NextChunk]_vars

---------------------------------------------------------------------------
(* The chunkers on texts of three paragraphs, as in the scenario of the       *)
(* design document: paragraphs of given lengths, joined by blank lines.       *)

MaxParagraphLen == 7

MaxScenarioSize == 12

\* A paragraph of n characters
ParagraphOf(n) == [i \in 1..n |-> "x"]

ScenarioTexts ==
    {Join(<<ParagraphOf(a), ParagraphOf(b), ParagraphOf(c)>>, ParagraphSeparator) :
        a \in 1..MaxParagraphLen, b \in 1..MaxParagraphLen, c \in 1..MaxParagraphLen}

InitScenario ==
    /\ store = <<>>
    /\ hyb = HybNone
    /\ iter = IterNone
    /\ userContext = UserContextNone
    /\ ret = RetNone
    /\ \E text \in ScenarioTexts, maxSize \in 1..MaxScenarioSize :
         \E minSize \in 1..maxSize :
            chk = [ChkNone EXCEPT !.text = text, !.maxSize = maxSize, !.minSize = minSize]
    /\ rr = RerankNone
    /\ wr = WriteNone

SpecScenario == InitScenario /\ [][NextChunk]_vars

---------------------------------------------------------------------------
(* The re-ranking step as a state machine over a collection that is already   *)
(* filled: the promises of one call settle in any order, and the same call is *)
(* made a second time.                                                        *)

MaxStoreLen == 3

Stores(ids, bodies) ==
    UNION { {upsertDocuments(<<>>, docs) : docs \in {d \in [1..n -> DocsOf(ids, bodies)] : DistinctIds(d)}}
            : n \in 0..MaxStoreLen }

\* The documents of the re-ranking runs: those without metadata keys to filter on
RerankBodies == {b \in Bodies : "title" \notin DOMAIN b.metadata}

\* The order in which the callers of the re-ranking runs upserted their documents
RerankIdSeq == <<"A", "B", "7">>

RerankStores ==
    {st \in Stores(Ids, RerankBodies) :
        \A i, j \in 1..Len(st) : i < j =>
            \E k, m \in 1..Len(RerankIdSeq) :
                k < m /\ RerankIdSeq[k] = st[i].id /\ RerankIdSeq[m] = st[j].id}

\* At most this many scoring calls of one hybridRetrieve call throw
MaxFailures == 1

InitRerank ==
    /\ store \in RerankStores
    /\ hyb = HybNone
    /\ iter = IterNone
    /\ userContext = UserContextNone
    /\ ret = RetNone
    /\ chk = ChkNone
    /\ rr = RerankNone
    /\ wr = WriteNone

\* hybridRetrieve({query, nResults}) up to results.map(async ...)
RerankStart ==
    /\ rr.pc = "idle"
    /\ \E query \in Queries, nResults \in 1..MaxResults :
        \E h \in hybridFused(store, query, nResults, NoFilter, "none") :
            \E failIds \in {f \in SUBSET IdsOf(h.filtered) : Cardinality(f) <= MaxFailures} :
                rr' = rerankStart(RerankNone, query, nResults, h.filtered, failIds)
    /\ UNCHANGED <<store, hyb, iter, userContext, ret, chk, wr>>

\* One of the pending scoring promises settles
RerankSettle ==
    /\ rr.pc = "scoring"
    /\ \E i \in 1..Len(rr.slots) :
        /\ ~rr.slots[i].settled
        /\ rr' = rerankSettle(rr, i)
    /\ UNCHANGED <<store, hyb, iter, userContext, ret, chk, wr>>

\* Promise.all resolves once every promise has settled; sort and slice follow
RerankFinish ==
    /\ rr.pc = "scoring"
    /\ \A i \in 1..Len(rr.slots) : rr.slots[i].settled
    /\ \E sorted \in sortAgain(collect(rr.slots, rr.order), rr.seen) :
          rr' = rerankFinish(rr, sorted)
    /\ UNCHANGED <<store, hyb, iter, userContext, ret, chk, wr>>

\* The same query on the same candidates once more
RerankRepeat ==
    /\ rr.pc = "done"
    /\ rr.call = 1
    /\ rr' = rerankStart(rr, rr.query, rr.nResults, rr.candidates, rr.failIds)
    /\ UNCHANGED <<store, hyb, iter, userContext, ret, chk, wr>>

NextRerank ==
    \/ RerankStart
    \/ RerankSettle
    \/ RerankFinish
    \/ RerankRepeat

SpecRerank == InitRerank /\ [][NextRerank]_vars

---------------------------------------------------------------------------
(* Two hybridRetrieve calls with the same query, each taken as one step,      *)
(* between which the caller has brought the collection into another order.    *)

RECURSIVE settleAll(_, _)
\* Every scoring promise from the i-th on has settled
settleAll(r, i) == IF i > Len(r.slots) THEN r ELSE settleAll(rerankSettle(r, i), i + 1)

\* Step 5 to the return of hybridRetrieve on the fused candidates: every record
\* the call can end in
rerankAll(r, query, nResults, candidates, failIds) ==
    LET settled == settleAll(rerankStart(r, query, nResults, candidates, failIds), 1)
    IN {rerankFinish(settled, sorted) :
            sorted \in sortAgain(collect(settled.slots, settled.order), r.seen)}

\* hybridRetrieve({query, nResults})
ReorderFirst ==
    /\ rr.pc = "idle"
    /\ \E query \in Queries, nResults \in 1..MaxResults :
        \E h \in hybridFused(store, query, nResults, NoFilter, "none") :
            \E failIds \in {f \in SUBSET IdsOf(h.filtered) : Cardinality(f) <= MaxFailures} :
                rr' \in rerankAll(RerankNone, query, nResults, h.filtered, failIds)
    /\ UNCHANGED <<store, hyb, iter, userContext, ret, chk, wr>>

\* The caller has deleted and upserted documents again, so that the collection
\* lists them in another order; the same query then fuses the same candidates
\* in the same order with other rrf values
ReorderSecond ==
    /\ rr.pc = "done"
    /\ rr.call = 1
    /\ \E p \in Perms(1..Len(store)) :
        LET reordered == [i \in 1..Len(store) |-> store[p[i]]]
        IN \E h \in hybridFused(reordered, rr.query, rr.nResults, NoFilter, "none") :
              /\ [i \in 1..Len(h.filtered) |-> [id |-> h.filtered[i].id, content |-> h.filtered[i].content]]
                    = [i \in 1..Len(rr.candidates) |->
                          [id |-> rr.candidates[i].id, content |-> rr.candidates[i].content]]
              /\ h.filtered # rr.candidates
              /\ store' = reordered
              /\ rr' \in rerankAll(rr, rr.query, rr.nResults, h.filtered, rr.failIds)
    /\ UNCHANGED <<hyb, iter, userContext, ret, chk, wr>>

NextReorder ==
    \/ ReorderFirst
    \/ ReorderSecond

SpecReorder == InitRerank /\ [][NextReorder]_vars

---------------------------------------------------------------------------
(* hybridRetrieve over collections that hold documents without content and    *)
(* ids that an object literal inherits, with the empty query among the        *)
(* queries.                                                                   *)

FuseIds == {"A", "7", "constructor"}

FuseBodies ==
    { [content |-> <<>>,         metadata |-> EmptyMeta],
      [content |-> <<"a">>,      metadata |-> EmptyMeta],
      [content |-> <<"A", "b">>, metadata |-> EmptyMeta] }

FuseQueries == {<<>>, <<"B">>}

InitFuse ==
    /\ store \in Stores(FuseIds, FuseBodies)
    /\ hyb = HybNone
    /\ iter = IterNone
    /\ userContext = UserContextNone
    /\ ret = RetNone
    /\ chk = ChkNone
    /\ rr = RerankNone
    /\ wr = WriteNone

\* hybridRetrieve({query, nResults})
FuseRetrieve ==
    /\ Idle
    /\ \E query \in FuseQueries, nResults \in 1..MaxResults, fault \in Faults :
            hyb' \in hybridRetrieve(store, query, nResults, NoFilter, fault)
    /\ UNCHANGED <<store, iter, userContext, ret, chk, rr, wr>>

FuseReturn ==
    /\ hyb.called
    /\ hyb' = HybNone
    /\ UNCHANGED <<store, iter, userContext, ret, chk, rr, wr>>

NextFuse ==
    \/ FuseRetrieve
    \/ FuseReturn

SpecFuse == InitFuse /\ [][NextFuse]_vars

---------------------------------------------------------------------------
(* The write paths as a state machine: the caller makes up to MaxWrites calls, *)
(* and the module's load-time initializeCollection() runs at some point.       *)

MaxWrites == 3

DefaultMaxChunkSize == 1200

DefaultMinChunkSize == 300

WriteIds == {"A", "B"}

\* Documents with metadata values that are not scalars (an object with a
\* toString, an object without one, undefined) and with an own "__proto__" key
WriteBodies ==
    { [content |-> <<"x">>, metadata |-> EmptyMeta],
      [content |-> <<"x", "\n", "\n", "y">>,
       metadata |-> [type |-> MV("string", "t"), tags |-> MV("object", "a,b"),
                     owner |-> MV("undefined", "undefined")]],
      [content |-> <<>>,
       metadata |-> [__proto__ |-> MV("string", "p"), flag |-> MV("boolean", "true"),
                     raw |-> MV("bare", "bare")]] }

\* chunkOptions: one character per chunk, or none given (the defaults)
ChunkOptions ==
    { [maxChunkSize |-> 1, minChunkSize |-> 1],
      [maxChunkSize |-> DefaultMaxChunkSize, minChunkSize |-> DefaultMinChunkSize] }

\* The file system: "/f" can be read, "/g" cannot
FileAt(filePath) ==
    IF filePath = "/f" THEN [readable |-> TRUE, content |-> <<"x">>]
    ELSE [readable |-> FALSE, content |-> <<>>]

InitWrite ==
    /\ store = <<>>
    /\ hyb = HybNone
    /\ iter = IterNone
    /\ userContext = UserContextNone
    /\ ret = RetNone
    /\ chk = ChkNone
    /\ rr = RerankNone
    /\ wr = WriteNone

\* The caller makes the call of the given kind with outcome r
Written(kind, id, r) ==
    /\ store' = r.store
    /\ wr' = written(wr, kind, id, r, store)
    /\ UNCHANGED <<hyb, iter, userContext, ret, chk, rr>>

\* upsertDocuments(docs)
UpsertDocuments ==
    /\ wr.calls < MaxWrites
    /\ \E docs \in BatchesOf(DocsOf(WriteIds, WriteBodies)), storeOk \in BOOLEAN :
        /\ DistinctIds(docs)
        /\ Written("upsertDocuments", "", upsertCall(store, docs, storeOk))

\* upsertWithChunks(doc, {chunkOptions, useTransformerChunking})
UpsertWithChunks ==
    /\ wr.calls < MaxWrites
    /\ \E doc \in DocsOf(WriteIds, WriteBodies), options \in ChunkOptions,
          useTransformerChunking \in BOOLEAN, embedThrows \in BOOLEAN, storeOk \in BOOLEAN :
        /\ embedThrows => useTransformerChunking
        /\ Written("upsertWithChunks", doc.id,
                   upsertWithChunks(store, doc, options.maxChunkSize, options.minChunkSize,
                                    useTransformerChunking, embedThrows, storeOk))

\* upsertFile(filePath, {id, metadata})
UpsertFile ==
    /\ wr.calls < MaxWrites
    /\ \E filePath \in {"/f", "/g"}, storeOk \in BOOLEAN,
          options \in {[id |-> "", metadata |-> EmptyMeta],
                       [id |-> "A", metadata |-> [filePath |-> MV("object", "o"),
                                                    tags |-> MV("object", "a,b")]]} :
        Written("upsertFile", filePath, upsertFile(store, filePath, options, FileAt(filePath), storeOk))

\* upsertContext(contextService, {id, metadata})
UpsertContext ==
    /\ wr.calls < MaxWrites
    /\ \E contextData \in {<<>>, <<[key |-> <<"k">>, value |-> <<"v">>]>>},
          now \in {1, 2}, storeOk \in BOOLEAN,
          options \in {[id |-> "", metadata |-> EmptyMeta],
                       [id |-> "B", metadata |-> [type |-> MV("string", "t"),
                                                    raw |-> MV("bare", "bare")]]} :
        Written("upsertContext", "", upsertContext(store, contextData, options, now, storeOk))

\* deleteDocument(id), of a stored id or of one of the caller's ids
DeleteDocument ==
    /\ wr.calls < MaxWrites
    /\ \E id \in WriteIds \cup IdsOf(store), storeOk \in BOOLEAN :
        /\ store' = IF storeOk THEN deleteDocument(store, id) ELSE store
        /\ wr' = [wr EXCEPT !.kind = "deleteDocument", !.threw = ~storeOk, !.calls = @ + 1,
                            !.id = id, !.docs = <<>>, !.chunks = <<>>, !.chunked = FALSE,
                            !.upserts = 0, !.before = store,
                            !.put = IF storeOk THEN @ \ {id} ELSE @]
    /\ UNCHANGED <<hyb, iter, userContext, ret, chk, rr>>

\* The initializeCollection() call of the module's load settles
InitializeCollection ==
    /\ ~wr.initialized
    /\ \E storeOk \in BOOLEAN :
        /\ store' = initializeCollection(store, storeOk)
        /\ wr' = [wr EXCEPT !.kind = "initializeCollection", !.threw = FALSE, !.id = "",
                            !.docs = <<>>, !.chunks = <<>>, !.chunked = FALSE, !.upserts = 0,
                            !.before = store, !.initialized = TRUE]
    /\ UNCHANGED <<hyb, iter, userContext, ret, chk, rr>>

\* retrieveByType(type, query, nResults), on a collection of at most MaxStoreLen rows
RetrieveByType ==
    /\ wr.calls < MaxWrites
    /\ Len(store) <= MaxStoreLen
    /\ \E type \in {"t", "chat-context"}, query \in Queries, nResults \in 1..MaxResults,
          storeOk \in BOOLEAN :
        \E answer \in QueryAnswers(store, query, RetrieveByTypeResults) :
            wr' = [wr EXCEPT !.kind = "retrieveByType", !.threw = FALSE, !.calls = @ + 1,
                             !.id = type, !.chunks = <<>>, !.chunked = FALSE, !.upserts = 0,
                             !.docs = retrieveByType(type, nResults, storeOk, answer),
                             !.before = store]
    /\ UNCHANGED <<store, hyb, iter, userContext, ret, chk, rr>>

NextWrite ==
    \/ UpsertDocuments
    \/ UpsertWithChunks
    \/ UpsertFile
    \/ UpsertContext
    \/ DeleteDocument
    \/ InitializeCollection
    \/ RetrieveByType

SpecWrite == InitWrite /\ [][NextWrite]_vars

---------------------------------------------------------------------------
(* Claims about hybridRetrieve and iterativeRetrieve *)

HybReturned == hyb.called /\ ~hyb.threw

\* C1: iterativeRetrieve({query, steps: k}) performs exactly k rounds and returns
\* exactly k context strings, a round without candidates contributing the empty
\* string, whatever happens to the store during a round: the call returns k
\* strings and a failing store never makes it reject.
C1_ExactlyKContexts ==
    /\ iter.pc = "done" => Len(iter.allContexts) = iter.steps
    /\ iter.pc = "threw" => iter.threwBy \notin {"vector", "list"}

\* The part of C1 that the code keeps: a call that returns returns k strings,
\* empty rounds included
IterReturnsKContexts ==
    iter.pc = "done" =>
        /\ Len(iter.allContexts) = iter.steps
        /\ iter.i = iter.steps
        /\ Cardinality({r \in 1..iter.steps : iter.allContexts[r] = <<>>}) = iter.emptyRounds

IterEmptyRoundSeen == iter.pc = "done" /\ iter.steps = MaxSteps /\ iter.emptyRounds >= 1

\* C2: when the similarity query or the listing of the store raises an error
\* during hybridRetrieve, the error is not propagated: the failed source
\* contributes an empty list and the call completes normally.
C2_StoreFailureAbsorbed ==
    (hyb.called /\ hyb.fault \in {"vector", "list"}) =>
        /\ ~hyb.threw
        /\ hyb.fault = "vector" => hyb.vectorResults = <<>>
        /\ hyb.fault = "list" => hyb.keywordResults = <<>>

\* C3: whichever scoring calls throw, the re-rank step yields every candidate it
\* was given, in the same order, a failing one with transformerScore 0 and every
\* other one with its cosine score; only the slice to nResults shortens the list.
C3_PartialFailureTolerated ==
    HybReturned =>
        /\ Len(hyb.scored) = Len(hyb.filtered)
        /\ \A i \in 1..Len(hyb.scored) :
              /\ hyb.scored[i].id = hyb.filtered[i].id
              /\ hyb.scored[i].content = hyb.filtered[i].content
              /\ hyb.scored[i].transformerScore =
                    IF hyb.scored[i].id \in hyb.failIds THEN ScoreZero
                    ELSE cosineSimilarity(Embed(hyb.query), Embed(hyb.filtered[i].content))
        /\ Len(hyb.results) = Min(Len(hyb.filtered), hyb.nResults)

\* Exactly one of three candidates fails; its own score would not have been 0,
\* and another candidate has a score that is not 0
C3_Witness ==
    /\ HybReturned
    /\ Len(hyb.filtered) = 3
    /\ Cardinality(hyb.failIds) = 1
    /\ \E i, j \in 1..3 :
          /\ hyb.scored[i].id \in hyb.failIds
          /\ cosineSimilarity(Embed(hyb.query), Embed(hyb.filtered[i].content)) # ScoreZero
          /\ hyb.scored[j].id \notin hyb.failIds
          /\ hyb.scored[j].transformerScore \notin {ScoreZero, ScoreNaN}

\* a.transformerScore > b.transformerScore, false when either is NaN
ScoreGreater(a, b) ==
    /\ ~a.transformerScore.nan
    /\ ~b.transformerScore.nan
    /\ ScoreLess(b.transformerScore, a.transformerScore)

\* The statement of C4 on one call record
SortedAndTruncated(h) ==
    /\ Len(h.results) <= h.nResults
    /\ \A i, j \in 1..Len(h.results) : i < j =>
          /\ ~ScoreGreater(h.results[j], h.results[i])
          /\ h.results[i].transformerScore = h.results[j].transformerScore
                => PosIn(h.scored, h.results[i].id) < PosIn(h.scored, h.results[j].id)
    /\ \A c \in 1..Len(h.scored) : h.scored[c].id \notin IdsOf(h.results) =>
          \A r \in 1..Len(h.results) : ~ScoreGreater(h.scored[c], h.results[r])

\* C4: hybridRetrieve returns at most nResults candidates, in non-increasing
\* order of transformerScore, equal scores in fused order, and no candidate cut
\* off by the truncation has a higher score than a returned one.
C4_SortedTruncation == HybReturned => SortedAndTruncated(hyb)

\* C4 where the code keeps it: no candidate of the call has a NaN score
SortedTruncationWithoutNaN ==
    (HybReturned /\ \A i \in 1..Len(hyb.scored) : ~hyb.scored[i].transformerScore.nan)
        => SortedAndTruncated(hyb)

\* 1 / rank of the id in the list, 0 when the list does not hold it
ReciprocalRank(list, id) ==
    IF id \in IdsOf(list) THEN Frac(1, PosIn(list, id)) ELSE <<0, 1>>

\* C5: the rrf of every fused candidate is the sum, over the vector and the
\* keyword list, of 1 / rank of its id in the lists that hold it, each list ranked
\* from 1.
C5_ReciprocalRankFusion ==
    HybReturned =>
        \A i \in 1..Len(hyb.fused) :
            hyb.fused[i].rrf =
                FracAdd(ReciprocalRank(hyb.vectorResults, hyb.fused[i].id),
                        ReciprocalRank(hyb.keywordResults, hyb.fused[i].id))

IdSeq(list) == [i \in 1..Len(list) |-> list[i].id]

\* The spec's example: vector [A, B, C], keyword [C, A] (here C is the id "7")
\* with A = 3/2, B = 1/2, C = 1/3 + 1
C5_Witness ==
    /\ HybReturned
    /\ IdSeq(hyb.vectorResults) = <<"A", "B", "7">>
    /\ IdSeq(hyb.keywordResults) = <<"7", "A">>
    /\ hyb.fused[PosIn(hyb.fused, "A")].rrf = <<3, 2>>
    /\ hyb.fused[PosIn(hyb.fused, "B")].rrf = <<1, 2>>
    /\ hyb.fused[PosIn(hyb.fused, "7")].rrf = <<4, 3>>

---------------------------------------------------------------------------
(* Claims about ChromaRetriever.retrieve and the provenance list *)

IsPrefix(s, t) == Len(s) <= Len(t) /\ SubSeq(t, 1, Len(s)) = s

\* C9: userContext.references is append-only: no step of any retriever that
\* shares the userContext removes or replaces an entry already recorded.
C9_ReferencesAppendOnly ==
    [][IsPrefix(userContext.references, userContext'.references)]_vars

\* The filesystem retriever's write keeps every entry recorded before it.
SearchFilesystemAppends ==
    [][SearchFilesystem => IsPrefix(userContext.references, userContext'.references)]_vars

\* A retrieve that found documents ran on a userContext that already held a
\* filesystem entry.
RetrieveAfterSearchFilesystem ==
    /\ ret.called
    /\ Len(ret.results) > 0
    /\ userContext.given
    /\ \E i \in 1..Len(ret.before) : ret.before[i].source = "filesystem"

\* C10: retrieve never throws: with the store unreachable or not configured it
\* returns the string that says no documents were found, and every string it
\* returns is non-empty.
C10_RetrieveNeverThrows ==
    ret.called =>
        /\ ~ret.threw
        /\ Len(ret.out) > 0
        /\ (ret.fault # "none" => ret.out = NoDocumentsMessage /\ ret.results = <<>>)

C10_Witness ==
    /\ ret.called
    /\ ret.fault = "unconfigured"
    /\ Len(store) > 0
    /\ ret.out = NoDocumentsMessage

---------------------------------------------------------------------------
(* Claims about the chunkers *)

ChunkReturned == chk.called /\ ~chk.threw

\* C6: in the returned sequence every chunk except possibly the last is at
\* least minSize long, unless the output is a single chunk: a short first chunk
\* does not stay when chunks follow it.
C6_MinSizeExceptLast ==
    ChunkReturned =>
        \A i \in 1..(Len(chk.chunks) - 1) : Len(chk.chunks[i]) >= chk.minSize

\* What the merge pass does give: every chunk after the first is at least
\* minSize long.
MinSizeExceptFirst ==
    ChunkReturned =>
        \A i \in 2..Len(chk.chunks) : Len(chk.chunks[i]) >= chk.minSize

ShortFirstChunkStands ==
    /\ ChunkReturned
    /\ Len(chk.chunks) > 1
    /\ Len(chk.chunks[1]) < chk.minSize

\* C7: no returned chunk, separators counted, is longer than maxSize, unless it
\* is one single paragraph or sentence that is longer than maxSize by itself.
C7_MaxSizeAfterMerge ==
    ChunkReturned =>
        \A i \in 1..Len(chk.chunks) :
            \/ Len(chk.chunks[i]) <= chk.maxSize
            \/ \E u \in 1..Len(chk.units) : chk.chunks[i] = trim(chk.units[u])

NonWhitespace(t) == SelectSeqBy(t, {i \in 1..Len(t) : t[i] \notin Whitespace})

\* C8: chunking loses nothing, duplicates nothing and keeps order: the chunks
\* one after the other hold the text's characters, separators aside, in the
\* text's order.
C8_ChunksReconstructText ==
    ChunkReturned => NonWhitespace(Concat(chk.chunks)) = NonWhitespace(chk.text)

\* In paragraph mode the characters are kept, whitespace aside.
ParagraphModeKeepsCharacters ==
    ChunkReturned /\ chk.mode = "paragraph"
        => NonWhitespace(Concat(chk.chunks)) = NonWhitespace(chk.text)

\* In embedding mode a piece of text after the last terminator is dropped.
TrailingPieceDropped ==
    /\ ChunkReturned
    /\ chk.mode = "embedding"
    /\ chk.text # <<>>
    /\ chk.text[Len(chk.text)] = "x"
    /\ Len(NonWhitespace(Concat(chk.chunks))) < Len(NonWhitespace(chk.text))

---------------------------------------------------------------------------
(* Claims about the chaining of queries in iterativeRetrieve *)

\* C12: round 1 retrieves with the caller's query; the query of round r + 1 is
\* the text generated from round r's query and round r's context string; and the
\* r-th returned string is the contents of round r's ranked candidates, in
\* ranked order.
C12_QueryChaining ==
    iter.pc \in {"loop", "done"} =>
        /\ Len(iter.queries) = iter.i
        /\ Len(iter.allContexts) = iter.i
        /\ iter.i >= 1 => iter.queries[1] = iter.query
        /\ \A r \in 1..(iter.i - 1) :
              iter.queries[r + 1] =
                  LitAnswerTo \o iter.queries[r] \o LitContext
                      \o slice0(iter.allContexts[r], SliceLen) \o LitEnd
        /\ \A r \in 1..iter.i :
              iter.allContexts[r] =
                  Join([k \in 1..Len(iter.rounds[r]) |-> iter.rounds[r][k].content],
                       <<"\n", "\n">>)

\* Two rounds have run, the first one found two candidates, so the second
\* round's query holds their contents
C12_Witness ==
    /\ iter.pc = "done"
    /\ iter.steps = 2
    /\ Len(iter.rounds[1]) = 2
    /\ iter.queries[2] # iter.queries[1]
    /\ includes(iter.queries[2], iter.allContexts[1])

---------------------------------------------------------------------------
(* Claims about the keyword scan and the fusion *)

EntryOf(list, id) == list[CHOOSE i \in 1..Len(list) : list[i].id = id]

MergedById(h) ==
    /\ IdsOf(h.fused) = IdsOf(h.vectorResults) \cup IdsOf(h.keywordResults)
    /\ \A i, j \in 1..Len(h.fused) : i # j => h.fused[i].id # h.fused[j].id
    /\ \A i \in 1..Len(h.fused) :
          IF h.fused[i].id \in IdsOf(h.vectorResults)
          THEN LET v == EntryOf(h.vectorResults, h.fused[i].id)
               IN /\ h.fused[i].content = v.content
                  /\ h.fused[i].metadata = v.metadata
                  /\ h.fused[i].distance = v.distance
          ELSE h.fused[i].distance = <<1, 2>>

\* C13: the fused list holds exactly one candidate per id of the union of the
\* vector and the keyword list; a candidate of the vector list keeps the vector
\* result's content, metadata and distance; a keyword-only candidate has
\* distance 0.5.
C13_FusionMergesById == HybReturned => MergedById(hyb)

\* The same for calls whose keyword-only ids are no inherited property names.
FusionMergesOwnKeys ==
    (HybReturned /\ (IdsOf(hyb.keywordResults) \ IdsOf(hyb.vectorResults)) \cap PrototypeKeys = {})
        => MergedById(hyb)

\* A keyword-only hit whose id is an inherited property name is in no fused list.
KeywordOnlyHitLost ==
    /\ HybReturned
    /\ hyb.fault = "none"
    /\ \E id \in IdsOf(hyb.keywordResults) : id \notin IdsOf(hyb.vectorResults) \cup IdsOf(hyb.fused)

ContainsQuery(content, query) == includes(toLowerCase(content), toLowerCase(query))

\* C15: the keyword list is exactly the stored documents whose content contains
\* the query as a case-insensitive substring, the empty query included, in
\* listing order, each with distance 0.5.
C15_KeywordScan ==
    HybReturned =>
        LET hits == SelectSeqBy(store, {i \in 1..Len(store) :
                                           ContainsQuery(store[i].content, hyb.query)})
        IN /\ Len(hyb.keywordResults) = Len(hits)
           /\ \A i \in 1..Len(hits) :
                 /\ hyb.keywordResults[i].id = hits[i].id
                 /\ hyb.keywordResults[i].content = hits[i].content
                 /\ hyb.keywordResults[i].distance = <<1, 2>>

\* What the scan gives: the documents with content that contain the query.
KeywordScanOfContents ==
    HybReturned =>
        LET hits == SelectSeqBy(store, {i \in 1..Len(store) :
                                           /\ store[i].content # <<>>
                                           /\ ContainsQuery(store[i].content, hyb.query)})
        IN /\ Len(hyb.keywordResults) = Len(hits)
           /\ \A i \in 1..Len(hits) :
                 /\ hyb.keywordResults[i].id = hits[i].id
                 /\ hyb.keywordResults[i].content = hits[i].content
                 /\ hyb.keywordResults[i].distance = <<1, 2>>

\* A document without content is left out of the scan for the empty query.
EmptyDocumentSkipped ==
    /\ HybReturned
    /\ hyb.query = <<>>
    /\ \E i \in 1..Len(store) :
          store[i].content = <<>> /\ store[i].id \notin IdsOf(hyb.keywordResults)

\* The rank of an id in the vector list; past the end for an id that is not in it
VectorRank(h, id) ==
    IF id \in IdsOf(h.vectorResults)
    THEN CHOOSE i \in 1..Len(h.vectorResults) : h.vectorResults[i].id = id
    ELSE Len(h.vectorResults) + 1

\* The order of the ids of the model as strings: "7" < "A" < "B" < "constructor"
IdOrder(id) == CHOOSE k \in 1..4 : <<"7", "A", "B", "constructor">>[k] = id

\* C18: among fused candidates with the same RRF score the one with the smaller
\* vector rank comes first, and candidates that tie on that too come in id
\* order.
C18_FusionTieBreak ==
    HybReturned =>
        \A i, j \in 1..Len(hyb.fused) :
            (i < j /\ hyb.fused[i].rrf = hyb.fused[j].rrf) =>
                \/ VectorRank(hyb, hyb.fused[i].id) < VectorRank(hyb, hyb.fused[j].id)
                \/ /\ VectorRank(hyb, hyb.fused[i].id) = VectorRank(hyb, hyb.fused[j].id)
                   /\ IdOrder(hyb.fused[i].id) < IdOrder(hyb.fused[j].id)

\* The fused list is in the order of Object.values: integer-like ids first,
\* then the vector list's order, then the keyword-only hits in listing order.
FusedInKeyOrder ==
    HybReturned =>
        \A i, j \in 1..Len(hyb.fused) : i < j =>
            LET a == hyb.fused[i].id
                b == hyb.fused[j].id
            IN \/ ArrayIndex(a) >= 0 /\ ArrayIndex(b) < 0
               \/ ArrayIndex(a) >= 0 /\ ArrayIndex(b) >= 0 /\ ArrayIndex(a) < ArrayIndex(b)
               \/ /\ ArrayIndex(a) < 0 /\ ArrayIndex(b) < 0
                  /\ \/ VectorRank(hyb, a) < VectorRank(hyb, b)
                     \/ /\ a \notin IdsOf(hyb.vectorResults)
                        /\ b \notin IdsOf(hyb.vectorResults)
                        /\ PosIn(hyb.keywordResults, a) < PosIn(hyb.keywordResults, b)

\* An integer-like id stands before a candidate of the same RRF score and a
\* smaller vector rank.
IntegerIdJumpsTie ==
    /\ HybReturned
    /\ \E i, j \in 1..Len(hyb.fused) :
          /\ i < j
          /\ hyb.fused[i].rrf = hyb.fused[j].rrf
          /\ hyb.fused[i].id = "7"
          /\ VectorRank(hyb, hyb.fused[j].id) < VectorRank(hyb, "7")

---------------------------------------------------------------------------
(* Claims about the metadata filter and the scores *)

\* The document's metadata has the expected string under the key
EqualsOn(doc, key, expected) ==
    key \in DOMAIN doc.metadata /\ doc.metadata[key] = [kind |-> "string", val |-> expected]

\* C14: with a filter every returned candidate equals the expected value on
\* every filter key, and a fused candidate that does so is not removed by the
\* filter step; with no filter or an empty one the filter step removes nothing.
C14_FilterAndSemantics ==
    HybReturned =>
        /\ hyb.filter.given =>
              \A i \in 1..Len(hyb.results) : \A k \in DOMAIN hyb.filter.map :
                  EqualsOn(hyb.results[i], k, hyb.filter.map[k])
        /\ \A i \in 1..Len(hyb.fused) :
              (\A k \in DOMAIN hyb.filter.map : EqualsOn(hyb.fused[i], k, hyb.filter.map[k]))
                  => hyb.fused[i].id \in IdsOf(hyb.filtered)
        /\ (~hyb.filter.given \/ DOMAIN hyb.filter.map = {}) => hyb.filtered = hyb.fused
        /\ IdSeq(hyb.scored) = IdSeq(hyb.filtered)

\* A filter on two keys removed a candidate that equals it on one key only,
\* next to a candidate without the key
C14_Witness ==
    /\ HybReturned
    /\ DOMAIN hyb.filter.map = {"type", "title"}
    /\ Len(hyb.fused) >= 2
    /\ \E i \in 1..Len(hyb.fused) :
          /\ EqualsOn(hyb.fused[i], "type", hyb.filter.map["type"])
          /\ ~EqualsOn(hyb.fused[i], "title", hyb.filter.map["title"])
          /\ hyb.fused[i].id \notin IdsOf(hyb.filtered)

\* A one-key filter kept a candidate and removed another one
FilterKeepsAndRemoves ==
    /\ HybReturned
    /\ DOMAIN hyb.filter.map = {"type"}
    /\ hyb.results # <<>>
    /\ Len(hyb.filtered) < Len(hyb.fused)

SquaredNorm(v) == v[1] * v[1] + v[2] * v[2]

Scored(h) == {i \in 1..Len(h.scored) : h.scored[i].id \notin h.failIds}

\* C16: the score of two embeddings is dot / (norm * norm), and 0 when either
\* norm is 0; it is always a number.
C16_CosineDefined ==
    HybReturned =>
        \A i \in Scored(hyb) :
            LET a == Embed(hyb.query)
                b == Embed(hyb.scored[i].content)
                dot == a[1] * b[1] + a[2] * b[2]
                score == hyb.scored[i].transformerScore
            IN /\ ~score.nan
               /\ SquaredNorm(a) * SquaredNorm(b) = 0 => score = ScoreZero
               /\ SquaredNorm(a) * SquaredNorm(b) # 0 =>
                     /\ score.sgn = Sign(dot)
                     /\ score.sq = Frac(dot * dot, SquaredNorm(a) * SquaredNorm(b))

\* The score is the cosine whenever neither norm is 0.
CosineOfNonZeroVectors ==
    HybReturned =>
        \A i \in Scored(hyb) :
            LET a == Embed(hyb.query)
                b == Embed(hyb.scored[i].content)
                dot == a[1] * b[1] + a[2] * b[2]
                score == hyb.scored[i].transformerScore
            IN SquaredNorm(a) * SquaredNorm(b) # 0 =>
                  /\ ~score.nan
                  /\ score.sgn = Sign(dot)
                  /\ score.sq = Frac(dot * dot, SquaredNorm(a) * SquaredNorm(b))

\* A document with an all-zero embedding was scored NaN.
ZeroNormScoresNaN ==
    /\ HybReturned
    /\ \E i \in Scored(hyb) :
          /\ Embed(hyb.scored[i].content) = <<0, 0>>
          /\ hyb.scored[i].transformerScore.nan

Failed(h, doc) == doc.id \in h.failIds

\* C17: 0, the score of a candidate whose scoring failed, is the least score:
\* every scored candidate has a score >= 0, no failed candidate stands before a
\* scored candidate with another score, and none is returned while a scored
\* candidate with another score is cut off.
C17_FailedScoreIsMinimum ==
    HybReturned =>
        /\ \A i \in Scored(hyb) :
              ~hyb.scored[i].transformerScore.nan /\ hyb.scored[i].transformerScore.sgn >= 0
        /\ \A i, j \in 1..Len(hyb.results) :
              (i < j /\ Failed(hyb, hyb.results[i]) /\ ~Failed(hyb, hyb.results[j]))
                  => hyb.results[j].transformerScore = ScoreZero
        /\ \A c \in Scored(hyb) : \A r \in 1..Len(hyb.results) :
              (hyb.scored[c].id \notin IdsOf(hyb.results) /\ Failed(hyb, hyb.results[r]))
                  => hyb.scored[c].transformerScore = ScoreZero

\* No score is NaN, and a failed candidate is returned while a scored candidate
\* with a negative score is cut off.
FailedDisplacesNegative ==
    /\ HybReturned
    /\ \A i \in 1..Len(hyb.scored) : ~hyb.scored[i].transformerScore.nan
    /\ \E r \in 1..Len(hyb.results) : Failed(hyb, hyb.results[r])
    /\ \E c \in Scored(hyb) :
          /\ hyb.scored[c].id \notin IdsOf(hyb.results)
          /\ hyb.scored[c].transformerScore.sgn < 0

InBothLists(h, id) == id \in IdsOf(h.vectorResults) /\ id \in IdsOf(h.keywordResults)

\* C19: a document of both lists has a fused score strictly above the score
\* 1 / r of a document that is in one list only, for r its rank in either list.
C19_RrfMonotone ==
    HybReturned =>
        \A i \in 1..Len(hyb.fused) :
            InBothLists(hyb, hyb.fused[i].id) =>
                /\ FracLess(<<1, PosIn(hyb.vectorResults, hyb.fused[i].id)>>, hyb.fused[i].rrf)
                /\ FracLess(<<1, PosIn(hyb.keywordResults, hyb.fused[i].id)>>, hyb.fused[i].rrf)

\* A document at rank 2 of the vector list and rank 2 of the keyword list, next
\* to a document of the vector list only
C19_Witness ==
    /\ HybReturned
    /\ \E i, j \in 1..Len(hyb.fused) :
          /\ InBothLists(hyb, hyb.fused[i].id)
          /\ PosIn(hyb.vectorResults, hyb.fused[i].id) = 2
          /\ PosIn(hyb.keywordResults, hyb.fused[i].id) = 2
          /\ hyb.fused[i].rrf = <<1, 1>>
          /\ hyb.fused[j].id \in IdsOf(hyb.vectorResults) \ IdsOf(hyb.keywordResults)

---------------------------------------------------------------------------
(* Claims about the re-ranking step under concurrency *)

\* C11: the scorings may settle in any order; sorting starts only after all of
\* them have settled, on the values in candidate order; and a second call with
\* the same query on the same candidates, whatever the order in which its
\* scorings settle, returns the same ordered result as the first.
C11_RerankDeterministic ==
    rr.pc = "done" =>
        /\ Len(rr.order) = Len(rr.candidates)
        /\ rr.scored = rerank(rr.query, rr.candidates, rr.failIds)
        /\ rr.call = 2 => rr.results = rr.firstResults

\* The second call has returned, its scorings settled in another order than the
\* first call's, and two of the three candidates have the same score.
C11_Witness ==
    /\ rr.pc = "done"
    /\ rr.call = 2
    /\ Len(rr.candidates) = 3
    /\ rr.order # rr.firstOrder
    /\ \E i, j \in 1..3 : i # j /\ rr.scored[i].transformerScore = rr.scored[j].transformerScore

---------------------------------------------------------------------------
(* Claims about the three-paragraph scenario *)

\* The call was semanticChunk on three paragraphs p1, p2, p3 where p1 joined to
\* p2 is longer than maxSize, p2 joined to p3 is not, and p1 is at least minSize
\* long
ThreeParagraphCase ==
    /\ ChunkReturned
    /\ chk.mode = "paragraph"
    /\ Len(chk.units) = 3
    /\ Len(chk.units[1] \o <<"\n", "\n">> \o chk.units[2]) > chk.maxSize
    /\ Len(chk.units[2] \o <<"\n", "\n">> \o chk.units[3]) <= chk.maxSize
    /\ Len(chk.units[1]) >= chk.minSize

\* C20: in that case semanticChunk returns exactly two chunks, p1 and p2 joined
\* to p3.
C20_ThreeParagraphs ==
    ThreeParagraphCase =>
        chk.chunks = <<trim(chk.units[1]),
                       trim(chk.units[2] \o <<"\n", "\n">> \o chk.units[3])>>

\* The same when p2 joined to p3 is at least minSize long as well.
ThreeParagraphsSecondChunkLongEnough ==
    (ThreeParagraphCase /\ Len(chk.units[2] \o <<"\n", "\n">> \o chk.units[3]) >= chk.minSize)
        => chk.chunks = <<trim(chk.units[1]),
                          trim(chk.units[2] \o <<"\n", "\n">> \o chk.units[3])>>

\* The design document's lengths [700, 700, 50] with sizes 1200 and 300, one
\* character for every hundred: two chunks, the first paragraph and the other two
ScenarioOfTheDesign ==
    /\ ThreeParagraphCase
    /\ <<Len(chk.units[1]), Len(chk.units[2]), Len(chk.units[3])>> = <<7, 7, 1>>
    /\ chk.maxSize = 12
    /\ chk.minSize = 3
    /\ Len(chk.chunks) = 2

\* The second chunk is shorter than minSize and was merged into the first: one
\* chunk of three paragraphs, longer than maxSize
ThreeParagraphsMergedIntoOne ==
    /\ ThreeParagraphCase
    /\ Len(chk.chunks) = 1
    /\ Len(chk.chunks[1]) > chk.maxSize

---------------------------------------------------------------------------
(* Claims about paragraphs and sentences longer than maxSize *)

\* The units (paragraphs or sentences) of the call that are longer than maxSize
\* and are not made of whitespace only
Oversized ==
    {i \in 1..Len(chk.units) : Len(chk.units[i]) > chk.maxSize /\ trim(chk.units[i]) # <<>>}

\* C21: a paragraph (paragraph mode) or sentence (embedding mode) longer than
\* maxSize is emitted as its own chunk: some output chunk is that unit and
\* nothing else, whatever precedes or follows it in the text.
C21_OversizedUnitAlone ==
    ChunkReturned =>
        \A i \in Oversized : \E c \in 1..Len(chk.chunks) : chk.chunks[c] = trim(chk.units[i])

\* What the code keeps of it: the unit is never truncated or split, some output
\* chunk holds it whole
OversizedUnitWhole ==
    ChunkReturned =>
        \A i \in Oversized : \E c \in 1..Len(chk.chunks) : includes(chk.chunks[c], trim(chk.units[i]))

\* A unit longer than maxSize shares its chunk with the short unit after it
OversizedUnitMergedWithNext ==
    /\ ChunkReturned
    /\ chk.mode = "paragraph"
    /\ Len(chk.units) = 2
    /\ 1 \in Oversized
    /\ Len(chk.chunks) = 1
    /\ chk.chunks[1] # trim(chk.units[1])
    /\ includes(chk.chunks[1], trim(chk.units[2]))
    /\ trim(chk.units[2]) # <<>>

---------------------------------------------------------------------------
(* Claims about the write paths *)

\* The last call was of the given kind and went through
Wrote(kind) == wr.kind = kind /\ ~wr.threw

RowOf(st, id) == st[CHOOSE i \in 1..Len(st) : st[i].id = id]

\* C22: the store holds at most one document per id; an upsert of a stored id
\* replaces its content and metadata and leaves the other documents alone; the
\* same upsert applied a second time changes nothing.
C22_UpsertIdempotent ==
    /\ \A i, j \in 1..Len(store) : i # j => store[i].id # store[j].id
    /\ Wrote("upsertDocuments") =>
          /\ \A k \in 1..Len(wr.docs) :
                /\ HasId(store, wr.docs[k].id)
                /\ RowOf(store, wr.docs[k].id).content = wr.docs[k].content
                /\ RowOf(store, wr.docs[k].id).metadata = sanitizeMetadata(wr.docs[k].metadata)
          /\ \A i \in 1..Len(wr.before) :
                wr.before[i].id \notin IdsOf(wr.docs) => wr.before[i] \in Range(store)
          /\ IdsOf(store) = IdsOf(wr.before) \cup IdsOf(wr.docs)
          /\ upsertDocuments(store, wr.docs) = store

\* An upsert of a stored id with another content and other metadata, next to a
\* document of another id
C22_Witness ==
    /\ Wrote("upsertDocuments")
    /\ Len(wr.before) = 2
    /\ \E k \in 1..Len(wr.docs) :
          /\ HasId(wr.before, wr.docs[k].id)
          /\ RowOf(wr.before, wr.docs[k].id).content # wr.docs[k].content
          /\ DOMAIN RowOf(wr.before, wr.docs[k].id).metadata # DOMAIN RowOf(store, wr.docs[k].id).metadata

\* The chunker's output for the document of an upsertWithChunks call was T chunks
ChunkedInto(T) == wr.kind = "upsertWithChunks" /\ wr.chunked /\ Len(wr.chunks) = T

ChunksOf(st, p) ==
    {i \in 1..Len(st) : "parentId" \in DOMAIN st[i].metadata /\ st[i].metadata["parentId"].val = p}

\* C24: deleteDocument(id) removes the document stored under id and nothing
\* else: every other document, the chunks of id included, stays as it was and in
\* its place; when id is not stored the store stays as it was.
C24_DeleteExactlyOne ==
    Wrote("deleteDocument") =>
        /\ ~HasId(store, wr.id)
        /\ Len(store) = Len(wr.before) - (IF HasId(wr.before, wr.id) THEN 1 ELSE 0)
        /\ \A i \in 1..Len(wr.before) : wr.before[i].id # wr.id => wr.before[i] \in Range(store)
        /\ \A i, j \in 1..Len(store) : i < j =>
              \E k, m \in 1..Len(wr.before) : k < m /\ wr.before[k] = store[i] /\ wr.before[m] = store[j]
        /\ ~HasId(wr.before, wr.id) => store = wr.before

\* A stored parent document was deleted and a chunk of it is still stored
C24_Witness ==
    /\ Wrote("deleteDocument")
    /\ HasId(wr.before, wr.id)
    /\ ChunksOf(wr.before, wr.id) # {}
    /\ ChunksOf(store, wr.id) = ChunksOf(wr.before, wr.id)

\* An id that is not stored was deleted from a store that holds documents
DeleteOfUnknownId ==
    /\ Wrote("deleteDocument")
    /\ ~HasId(wr.before, wr.id)
    /\ wr.before # <<>>

\* C25: the store changes only through the caller's upserts and deletes: a
\* retrieval leaves it as it was, and every stored document has an id that the
\* caller upserted and has not deleted since.
C25_OnlyCallerWrites ==
    /\ wr.kind = "retrieveByType" => store = wr.before
    /\ \A i \in 1..Len(store) : store[i].id \in wr.put

SampleIds == {"sample_" \o ToString(n) : n \in 1..Len(SampleDocuments)}

\* What the code keeps of it: a retrieval leaves the store as it was, and a stored
\* document that the caller did not put is one of the samples of the module's load
OnlyCallerAndSampleWrites ==
    /\ wr.kind = "retrieveByType" => store = wr.before
    /\ \A i \in 1..Len(store) :
          \/ store[i].id \in wr.put
          \/ wr.initialized /\ store[i].id \in SampleIds

\* The caller has upserted nothing and the store holds the five samples
SamplesStoredUnasked ==
    /\ wr.put = {}
    /\ wr.calls = 0
    /\ IdsOf(store) = SampleIds
    /\ Len(store) = Len(SampleDocuments)

\* A retrieval was made on a store that holds documents
RetrievedByType ==
    /\ wr.kind = "retrieveByType"
    /\ wr.docs # <<>>
    /\ Len(wr.docs) < Len(store)

\* hybridRetrieve, iterativeRetrieve and ChromaRetriever.retrieve: a step of a
\* retrieval call leaves the store as it was
RetrievalsLeaveStore ==
    [][(hyb' # hyb \/ iter' # iter \/ ret' # ret \/ rr' # rr) => store' = store]_vars


---------------------------------------------------------------------------
(* Claims about the string ChromaRetriever.retrieve returns *)

\* lit stands in out from position p on
Piece(out, p, lit) ==
    /\ p + Len(lit) - 1 <= Len(out)
    /\ SubSeq(out, p, p + Len(lit) - 1) = lit

DigitValue(c) == CHOOSE d \in 0..9 : DigitChars[d + 1] = c

RECURSIVE ValueOf(_)
\* The number a string of decimal digits writes
ValueOf(t) == IF t = <<>> THEN 0 ELSE 10 * ValueOf(SubSeq(t, 1, Len(t) - 1)) + DigitValue(t[Len(t)])

\* shown writes the fraction x to four decimals: digits, a point, four digits,
\* and no number of four decimals is nearer to x
ShowsToFour(shown, x) ==
    LET point == Len(shown) - FixedDecimals
        digits == SelectSeqBy(shown, (1..Len(shown)) \ {point})
    IN /\ point >= 2
       /\ shown[point] = "."
       /\ \A i \in 1..Len(digits) : digits[i] \in Range(DigitChars)
       /\ 2 * Abs(ValueOf(digits) * x[2] - x[1] * FixedScale) <= x[2]

RECURSIVE BlocksFrom(_, _, _, _)
\* From position p on, out is block i of results, then the separator and the
\* blocks after it, and nothing else
BlocksFrom(out, p, results, i) ==
    LET doc == results[i]
        head == LitDocument \o Digits(i) \o LitId \o <<doc.id>> \o LitDistance
        dFrom == p + Len(head)
        closes == {q \in dFrom..Len(out) : out[q] = ")"}
    IN /\ Piece(out, p, head)
       /\ closes # {}
       /\ LET dTo == (CHOOSE q \in closes : \A r \in closes : q <= r) - 1
              cFrom == dTo + 1 + Len(LitBlockEnd)
              cTo == cFrom + Len(doc.content) - 1
          IN /\ ShowsToFour(SubSeq(out, dFrom, dTo), doc.distance)
             /\ Piece(out, dTo + 1, LitBlockEnd)
             /\ Piece(out, cFrom, doc.content)
             /\ IF i = Len(results) THEN cTo = Len(out)
                ELSE /\ Piece(out, cTo + 1, BlockSeparator)
                     /\ BlocksFrom(out, cTo + 1 + Len(BlockSeparator), results, i + 1)

\* C26: retrieve on n >= 1 candidates returns n blocks in the order of the
\* store's answer (nearest first), block i with candidate i's id, its distance
\* to four decimals and its content, joined by the '---' separator; on no
\* candidate it returns the string that says no documents were found.
C26_RetrieveFormatting ==
    ret.called =>
        /\ ret.fault = "none" =>
              ret.results \in QueryAnswers(store, searchTextOf(ret.input), RetrieveResults)
        /\ \A i, j \in 1..Len(ret.results) :
              i < j => ~FracLess(ret.results[j].distance, ret.results[i].distance)
        /\ IF ret.results = <<>> THEN ret.out = NoDocumentsMessage
           ELSE BlocksFrom(ret.out, 1, ret.results, 1)

\* Two candidates at different distances were formatted
C26_Witness ==
    /\ ret.called
    /\ Len(ret.results) = 2
    /\ FracLess(ret.results[1].distance, ret.results[2].distance)
    /\ ret.results[1].content # <<>>

\* retrieve on an empty store that answers
RetrieveOnEmptyStore ==
    /\ ret.called
    /\ ret.fault = "none"
    /\ store = <<>>
    /\ ret.out = NoDocumentsMessage

RoundedFractions == {<<0, 1>>, <<1, 3>>, <<2, 3>>, <<1, 8>>, <<12345, 100000>>, <<99995, 100000>>, <<7, 2>>}

\* toFixed(4) writes a distance that is not a whole number to four decimals
ToFixedRoundsToFour == \A x \in RoundedFractions : ShowsToFour(toFixed4(x), x)


ReferenceKeys == {"id", "title", "source", "distance"}

\* C27: a retrieve call with a userContext that gets n >= 1 candidates records
\* n entries {id, title, source, distance} under references, entry i with
\* candidate i's id and distance; a call that gets no candidate, a failed store
\* query included, leaves the userContext as it was.
C27_ProvenanceRecorded ==
    [][(~ret.called /\ ret'.called) =>
          LET results == ret'.results
              references == userContext'.references
          IN IF results = <<>> \/ ~userContext.given
             THEN userContext' = userContext
             ELSE /\ userContext'.given
                  /\ Len(references) = Len(results)
                  /\ \A i \in 1..Len(results) :
                        /\ DOMAIN references[i] = ReferenceKeys
                        /\ references[i].id = results[i].id
                        /\ references[i].distance = results[i].distance]_vars

\* Two candidates were recorded on a userContext
C27_Witness ==
    /\ ret.called
    /\ userContext.given
    /\ Len(ret.results) = 2
    /\ Len(userContext.references) = 2
    /\ userContext.references[1].id # userContext.references[2].id

\* A failed store query on a userContext that held an entry
RetrieveFailedAfterSearchFilesystem ==
    /\ ret.called
    /\ ret.fault = "unreachable"
    /\ Len(store) > 0
    /\ userContext.given
    /\ userContext.references # <<>>
    /\ userContext.references = ret.before


WritePaths == {"upsertDocuments", "upsertWithChunks", "upsertFile", "upsertContext"}

\* The stored metadata holds, under the given keys, what sanitising the input
\* metadata asks for: a scalar as it was, anything else as a string or null
StoredFrom(stored, input, keys) ==
    /\ DOMAIN stored = keys
    /\ \A k \in keys :
          IF input[k].kind \in {"string", "number", "boolean", "null"}
          THEN stored[k] = input[k]
          ELSE stored[k].kind \in {"string", "null"}

\* The documents of the last call's batch that the store keeps: the last one of
\* each id
KeptOf(docs) == {k \in 1..Len(docs) : \A j \in (k + 1)..Len(docs) : docs[j].id # docs[k].id}

\* C28: every stored metadata value is a string, a number, a boolean or null;
\* on every write path a scalar input value is stored as it was, any other
\* value as its string or as null, under the same set of keys.
C28_MetadataSanitized ==
    /\ \A i \in 1..Len(store) : \A k \in DOMAIN store[i].metadata :
          store[i].metadata[k].kind \in {"string", "number", "boolean", "null"}
    /\ \A kind \in WritePaths :
          Wrote(kind) =>
              \A k \in KeptOf(wr.docs) :
                  StoredFrom(RowOf(store, wr.docs[k].id).metadata, wr.docs[k].metadata,
                             DOMAIN wr.docs[k].metadata)

\* The same with the key "__proto__" set aside
SanitizedExceptProto ==
    /\ \A i \in 1..Len(store) : \A k \in DOMAIN store[i].metadata :
          store[i].metadata[k].kind \in {"string", "number", "boolean", "null"}
    /\ \A kind \in WritePaths :
          Wrote(kind) =>
              \A k \in KeptOf(wr.docs) :
                  StoredFrom(RowOf(store, wr.docs[k].id).metadata, wr.docs[k].metadata,
                             DOMAIN wr.docs[k].metadata \ {"__proto__"})

\* A call on the given path stored a document whose metadata had a scalar and
\* a value that is none
SanitizedOn(kind) ==
    /\ Wrote(kind)
    /\ \E k \in KeptOf(wr.docs) :
          LET input == wr.docs[k].metadata
              stored == RowOf(store, wr.docs[k].id).metadata
          IN \E a, c \in DOMAIN input \cap DOMAIN stored :
                /\ input[a].kind \in {"object", "bare", "undefined"}
                /\ stored[a].kind \in {"string", "null"}
                /\ input[c].kind \in {"string", "boolean"}
                /\ stored[c] = input[c]

SanitizedOnUpsertWithChunks == SanitizedOn("upsertWithChunks")

SanitizedOnUpsertFile == SanitizedOn("upsertFile")

SanitizedOnUpsertContext == SanitizedOn("upsertContext")

\* Metadata with an own key "__proto__" was written and the stored metadata
\* has no such key
ProtoKeyDropped ==
    /\ Wrote("upsertDocuments")
    /\ \E k \in KeptOf(wr.docs) :
          /\ "__proto__" \in DOMAIN wr.docs[k].metadata
          /\ "__proto__" \notin DOMAIN RowOf(store, wr.docs[k].id).metadata


\* The number a metadata value of kind number writes
NumberOf(v) == CHOOSE n \in 0..MaxTextLen : ToString(n) = v.val

IsChunk(row) == {"parentId", "chunkTotal"} \subseteq DOMAIN row.metadata

ChunkId(p, N) == p \o "::chunk" \o ToString(N)

\* C29: for every stored chunk with parentId p and chunkTotal T the store holds
\* exactly the chunks p::chunk1 .. p::chunkT of p, each with chunkTotal T; no
\* chunk of an earlier chunking of p stays behind.
C29_ChunkSetsConsistent ==
    \A i \in 1..Len(store) :
        IsChunk(store[i]) =>
            LET p == store[i].metadata["parentId"].val
                T == NumberOf(store[i].metadata["chunkTotal"])
            IN /\ {store[j].id : j \in ChunksOf(store, p)} = {ChunkId(p, N) : N \in 1..T}
               /\ \A j \in ChunksOf(store, p) : store[j].metadata["chunkTotal"] = store[i].metadata["chunkTotal"]

\* Right after upsertWithChunks stored T chunks of a parent, the chunks 1 .. T
\* of that parent are stored with chunkTotal T
FreshChunksStored ==
    (Wrote("upsertWithChunks") /\ wr.chunked) =>
        \A N \in 1..Len(wr.chunks) :
            /\ HasId(store, ChunkId(wr.id, N))
            /\ RowOf(store, ChunkId(wr.id, N)).metadata["chunkTotal"]
                  = MV("number", ToString(Len(wr.chunks)))
            /\ RowOf(store, ChunkId(wr.id, N)).content = wr.chunks[N]

\* A parent stored as two chunks was chunked again into one: chunk 2 of the
\* earlier chunking is still stored, with chunkTotal 2 next to chunkTotal 1
StaleChunkAfterRechunk ==
    /\ Wrote("upsertWithChunks")
    /\ wr.chunked
    /\ Len(wr.chunks) = 1
    /\ HasId(wr.before, ChunkId(wr.id, 2))
    /\ HasId(store, ChunkId(wr.id, 2))
    /\ RowOf(store, ChunkId(wr.id, 2)).metadata["chunkTotal"] = MV("number", "2")
    /\ RowOf(store, ChunkId(wr.id, 1)).metadata["chunkTotal"] = MV("number", "1")

\* One chunk of two was deleted by its id and the other is still stored
ChunkDeletedAlone ==
    /\ Wrote("deleteDocument")
    /\ \E p \in WriteIds :
          /\ wr.id = ChunkId(p, 1)
          /\ HasId(wr.before, wr.id)
          /\ HasId(store, ChunkId(p, 2))


---------------------------------------------------------------------------
(* Claims about the rrf of the candidates hybridRetrieve returns *)

RrfSeq(list) == [i \in 1..Len(list) |-> list[i].rrf]

\* C30: every returned candidate carries the rrf it got at the fusion, and the
\* rrf has no part in which candidates are returned or in their order: a call
\* on candidates of the same ids and contents in the same order, with other rrf
\* values, returns the same ids in the same order.
C30_RrfDiagnosticOnly ==
    rr.pc = "done" =>
        /\ \A i \in 1..Len(rr.results) :
              /\ HasId(rr.candidates, rr.results[i].id)
              /\ rr.results[i].rrf = rr.candidates[PosIn(rr.candidates, rr.results[i].id)].rrf
        /\ Len(rr.results) = Min(rr.nResults, Len(rr.candidates))
        /\ rr.call = 2 => IdSeq(rr.results) = IdSeq(rr.firstResults)

\* The call after the reordering has returned: two candidates of the same score
\* got their rrf the other way round than in the first call
C30_Witness ==
    /\ rr.pc = "done"
    /\ rr.call = 2
    /\ Len(rr.results) >= 2
    /\ RrfSeq(rr.results) # RrfSeq(rr.firstResults)
    /\ \E i, j \in 1..Len(rr.results) :
          /\ i < j
          /\ rr.results[i].transformerScore = rr.results[j].transformerScore
          /\ FracLess(rr.results[i].rrf, rr.results[j].rrf)
          /\ FracLess(rr.firstResults[j].rrf, rr.firstResults[i].rrf)

=============================================================================
